---- MODULE Spec2Model ----
(***************************************************************************)
(* Rule builder: the rule tree, its structural edits (ruleUtils.ts) and    *)
(* the undo/redo reducer of useRuleBuilder.ts.                             *)
(*                                                                         *)
(* A Rule is a record with the fields id, field, operator, value and       *)
(* combinator; a RuleGroup is a record with id, combinator, rules and the  *)
(* optional fields `not` and individualCombinator.  As in the source, an   *)
(* item is a Rule exactly when it has a `field` key.  Node ids are         *)
(* naturals; uuidv4() is modelled as a supply of ids never issued before.  *)
(***************************************************************************)
EXTENDS Integers, Sequences, FiniteSets, TLC

VARIABLES
    state,      \* RuleBuilderState of the reducer: rule, history, historyIndex, errors, isValid
    uuid,       \* the next id uuidv4() hands out in the reducer specification
    orig,       \* history: the tree the reducer was constructed or last reset with
    edits,      \* history: edit actions dispatched since then, -1 once the run is no longer tracked
    tree,       \* structural editor: the current tree
    nextId,     \* structural editor: the next id uuidv4() hands out
    steps,      \* structural editor: operations applied so far
    formatInput,    \* formatters: the group handed to the formatters
    formatOutput,   \* formatters: the last result, with the format it is in
    valInput,       \* validation: the tree and the field catalog handed to the validators
    valOutput,      \* validation: what the last validator call returned
    api,            \* field values: the state, refs, cache, requests in flight, timers and clock of useApiFieldValues
    apiLog,         \* field values, history: the last search call, the timer fetches since, stale results applied
    storage,        \* saved rules: the folders and rules in localStorage
    storageResult   \* saved rules: the last call on the storage and what it returned

histVars == <<state, uuid, orig, edits>>
editVars == <<tree, nextId, steps>>
fmtVars == <<formatInput, formatOutput>>
valVars == <<valInput, valOutput>>
\* The variables of the validators, of the field-value hook and of the saved-rule storage
apiVars == <<api, apiLog>>
storeVars == <<storage, storageResult>>
auxVars == <<valVars, apiVars, storeVars>>
vars == <<state, uuid, orig, edits, tree, nextId, steps, formatInput, formatOutput, auxVars>>

-----------------------------------------------------------------------------
(* Bounds of the model *)

\* Fresh ids uuidv4() can hand out in one behaviour of the reducer specification.
UuidSupply == 1
\* The full edit alphabet is offered while the log holds at most FreeLog
\* trees; on a longer log the edits offered are TOGGLE_NOT of the root and of
\* a missing group, so that the log can grow to its cap in a finite state space.
FreeLog == 1
\* Longest run of edits (from construction or reset) whose undo/redo inverse is tracked.
MaxRun == 52
\* Operations applied in one behaviour of the structural-editor specification.
MaxSteps == 2
\* Fresh ids uuidv4() can hand out in one behaviour of the structural-editor specification.
EditUuidSupply == 4
\* Most children of the root of a group handed to the formatters.
MaxChildren == 3

-----------------------------------------------------------------------------
(* Tree model *)

\* JavaScript's null, as returned by the find* functions.
Null == [null |-> TRUE]

\* 'field' in item
IsRule(item) == "field" \in DOMAIN item

\* { ...a, ...b }
Spread(a, b) == [k \in DOMAIN a \cup DOMAIN b |-> IF k \in DOMAIN b THEN b[k] ELSE a[k]]

\* group.not, undefined being falsy
GetNot(group) == IF "not" \in DOMAIN group THEN group["not"] ELSE FALSE

\* array.map(f) for the recursive rewrites below: groups are rewritten, rules kept
MapGroups(rules, F(_)) == [i \in 1..Len(rules) |-> IF IsRule(rules[i]) THEN rules[i] ELSE F(rules[i])]

\* array.filter(keep) on a sequence
Filter(s, Keep(_)) == SelectSeq(s, Keep)

\* array.splice(index, 0, item) on a copy: JavaScript clamps index to [0, length]
\* and counts a negative index from the end.
SpliceInsert(s, index, item) ==
    LET at == IF index < 0 THEN (IF Len(s) + index < 0 THEN 0 ELSE Len(s) + index)
              ELSE IF index > Len(s) THEN Len(s) ELSE index
    IN SubSeq(s, 1, at) \o <<item>> \o SubSeq(s, at + 1, Len(s))

\* The catalog handed to createEmptyRule: one number field without an operator list.
Fields == <<[name |-> "age", label |-> "Age", type |-> "number"]>>

getDefaultValueForField(field) ==
    IF field = Null THEN ""
    ELSE CASE field.type = "string" -> ""
           [] field.type = "number" -> 0
           [] field.type = "boolean" -> FALSE
           [] field.type = "date" -> "today"
           [] field.type = "select" ->
                IF "options" \in DOMAIN field /\ Len(field.options) > 0
                THEN field.options[1].value ELSE ""
           [] OTHER -> ""

\* createEmptyRule(fields), u being the id uuidv4() returns
createEmptyRule(fields, u) ==
    LET firstField == IF Len(fields) > 0 THEN fields[1] ELSE Null
        defaultOperator ==
            IF firstField # Null /\ "operators" \in DOMAIN firstField /\ Len(firstField.operators) > 0
            THEN firstField.operators[1] ELSE "equals"
    IN [id |-> u,
        field |-> IF firstField # Null THEN firstField.name ELSE "",
        operator |-> defaultOperator,
        value |-> getDefaultValueForField(firstField),
        combinator |-> "and"]

\* createEmptyRuleGroup(), u being the id uuidv4() returns
createEmptyRuleGroup(u) == [id |-> u, combinator |-> "and", rules |-> <<>>]

-----------------------------------------------------------------------------
(* Structural editor: ruleUtils.ts *)

RECURSIVE addRuleToGroup(_, _, _)
addRuleToGroup(rootGroup, groupId, rule) ==
    IF rootGroup.id = groupId
    THEN [rootGroup EXCEPT !.rules = Append(rootGroup.rules, rule)]
    ELSE LET Rec(item) == addRuleToGroup(item, groupId, rule)
         IN [rootGroup EXCEPT !.rules = MapGroups(rootGroup.rules, Rec)]

RECURSIVE addGroupToGroup(_, _, _)
addGroupToGroup(rootGroup, parentGroupId, newGroup) ==
    IF rootGroup.id = parentGroupId
    THEN [rootGroup EXCEPT !.rules = Append(rootGroup.rules, newGroup)]
    ELSE LET Rec(item) == addGroupToGroup(item, parentGroupId, newGroup)
         IN [rootGroup EXCEPT !.rules = MapGroups(rootGroup.rules, Rec)]

RECURSIVE updateRule(_, _, _)
updateRule(rootGroup, ruleId, updatedRule) ==
    [rootGroup EXCEPT !.rules =
        [i \in 1..Len(rootGroup.rules) |->
            IF IsRule(rootGroup.rules[i])
            THEN (IF rootGroup.rules[i].id = ruleId THEN updatedRule ELSE rootGroup.rules[i])
            ELSE updateRule(rootGroup.rules[i], ruleId, updatedRule)]]

RECURSIVE updateGroup(_, _, _)
updateGroup(rootGroup, groupId, updatedGroup) ==
    IF rootGroup.id = groupId
    THEN [Spread(rootGroup, updatedGroup) EXCEPT !.id = rootGroup.id]
    ELSE LET Rec(item) == updateGroup(item, groupId, updatedGroup)
         IN [rootGroup EXCEPT !.rules = MapGroups(rootGroup.rules, Rec)]

\* Faulty variant of deleteRule: items of either kind with the id are removed.
RECURSIVE deleteRuleAnyKind(_, _)
deleteRuleAnyKind(rootGroup, ruleId) ==
    LET Keep(item) == item.id # ruleId
        Rec(item) == deleteRuleAnyKind(item, ruleId)
    IN [rootGroup EXCEPT !.rules = MapGroups(Filter(rootGroup.rules, Keep), Rec)]

\* Faulty variant of deleteRule: only the root's own children are filtered.
deleteRuleTopOnly(rootGroup, ruleId) ==
    LET Keep(item) == IF IsRule(item) THEN item.id # ruleId ELSE TRUE
    IN [rootGroup EXCEPT !.rules = Filter(rootGroup.rules, Keep)]

RECURSIVE deleteRule(_, _)
deleteRule(rootGroup, ruleId) ==
    LET Keep(item) == IF IsRule(item) THEN item.id # ruleId ELSE TRUE
        Rec(item) == deleteRule(item, ruleId)
    IN [rootGroup EXCEPT !.rules = MapGroups(Filter(rootGroup.rules, Keep), Rec)]

RECURSIVE deleteGroup(_, _)
deleteGroup(rootGroup, groupId) ==
    IF rootGroup.id = groupId THEN rootGroup
    ELSE LET Keep(item) == IF IsRule(item) THEN TRUE ELSE item.id # groupId
             Rec(item) == deleteGroup(item, groupId)
         IN [rootGroup EXCEPT !.rules = MapGroups(Filter(rootGroup.rules, Keep), Rec)]

\* cloneRule(rule), u being the id uuidv4() returns
cloneRule(rule, u) == [rule EXCEPT !.id = u]

\* Faulty variant of cloneRuleGroupFrom: a shallow copy, the children keep their ids.
cloneRuleGroupShallow(group, u) == [node |-> [group EXCEPT !.id = u], next |-> u + 1]

\* cloneRuleGroup(group): the clone and the next unused id, uuidv4() being called
\* for the group first and then for its items in order.
RECURSIVE cloneItems(_, _)
RECURSIVE cloneRuleGroupFrom(_, _)
cloneItems(items, u) ==
    IF items = <<>> THEN [items |-> <<>>, next |-> u]
    ELSE LET h == IF IsRule(Head(items))
                  THEN [node |-> cloneRule(Head(items), u), next |-> u + 1]
                  ELSE cloneRuleGroupFrom(Head(items), u)
             t == cloneItems(Tail(items), h.next)
         IN [items |-> <<h.node>> \o t.items, next |-> t.next]

cloneRuleGroupFrom(group, u) ==
    LET c == cloneItems(group.rules, u + 1)
    IN [node |-> [group EXCEPT !.id = u, !.rules = c.items], next |-> c.next]

cloneRuleGroup(group, u) == cloneRuleGroupFrom(group, u).node

RECURSIVE findRule(_, _)
RECURSIVE findRuleIn(_, _)
findRuleIn(items, ruleId) ==
    IF items = <<>> THEN Null
    ELSE IF IsRule(Head(items))
         THEN (IF Head(items).id = ruleId THEN Head(items) ELSE findRuleIn(Tail(items), ruleId))
         ELSE LET found == findRule(Head(items), ruleId)
              IN IF found # Null THEN found ELSE findRuleIn(Tail(items), ruleId)

findRule(rootGroup, ruleId) == findRuleIn(rootGroup.rules, ruleId)

RECURSIVE findGroup(_, _)
RECURSIVE findGroupIn(_, _)
findGroupIn(items, groupId) ==
    IF items = <<>> THEN Null
    ELSE IF IsRule(Head(items)) THEN findGroupIn(Tail(items), groupId)
         ELSE LET found == findGroup(Head(items), groupId)
              IN IF found # Null THEN found ELSE findGroupIn(Tail(items), groupId)

findGroup(rootGroup, groupId) ==
    IF rootGroup.id = groupId THEN rootGroup ELSE findGroupIn(rootGroup.rules, groupId)

RECURSIVE findParentGroup(_, _)
RECURSIVE findParentIn(_, _, _)
findParentIn(rootGroup, items, targetId) ==
    IF items = <<>> THEN Null
    ELSE IF Head(items).id = targetId THEN rootGroup
         ELSE IF IsRule(Head(items)) THEN findParentIn(rootGroup, Tail(items), targetId)
         ELSE LET found == findParentGroup(Head(items), targetId)
              IN IF found # Null THEN found ELSE findParentIn(rootGroup, Tail(items), targetId)

findParentGroup(rootGroup, targetId) == findParentIn(rootGroup, rootGroup.rules, targetId)

\* array.findIndex(item => item.id === itemId), 1-based, 0 when there is none
FindIndex(items, itemId) ==
    LET hits == {i \in 1..Len(items) : items[i].id = itemId}
    IN IF hits = {} THEN 0 ELSE CHOOSE i \in hits : \A j \in hits : i <= j

\* array.filter((_, index) => index !== itemIndex)
RemoveAt(items, itemIndex) == SubSeq(items, 1, itemIndex - 1) \o SubSeq(items, itemIndex + 1, Len(items))

\* moveItem's inner removeItem: the tree it returns
RECURSIVE removeItem(_, _)
removeItem(group, itemId) ==
    LET itemIndex == FindIndex(group.rules, itemId)
    IN IF itemIndex # 0
       THEN [group EXCEPT !.rules = RemoveAt(group.rules, itemIndex)]
       ELSE LET Rec(item) == removeItem(item, itemId)
            IN [group EXCEPT !.rules = MapGroups(group.rules, Rec)]

\* moveItem's inner removeItem: the value it leaves in itemToMove (the last
\* assignment made during the traversal, Null when there is none)
RECURSIVE itemToMoveOf(_, _)
RECURSIVE itemToMoveIn(_, _, _)
itemToMoveIn(items, itemId, sofar) ==
    IF items = <<>> THEN sofar
    ELSE IF IsRule(Head(items)) THEN itemToMoveIn(Tail(items), itemId, sofar)
         ELSE LET found == itemToMoveOf(Head(items), itemId)
              IN itemToMoveIn(Tail(items), itemId, IF found # Null THEN found ELSE sofar)

itemToMoveOf(group, itemId) ==
    LET itemIndex == FindIndex(group.rules, itemId)
    IN IF itemIndex # 0 THEN group.rules[itemIndex]
       ELSE itemToMoveIn(group.rules, itemId, Null)

\* Faulty variant of addItemToTarget: the item lands one position late.
RECURSIVE addItemToTargetAfter(_, _, _, _)
addItemToTargetAfter(group, targetGroupId, targetIndex, itemToMove) ==
    IF group.id = targetGroupId
    THEN [group EXCEPT !.rules = SpliceInsert(group.rules, targetIndex + 1, itemToMove)]
    ELSE LET Rec(item) == addItemToTargetAfter(item, targetGroupId, targetIndex, itemToMove)
         IN [group EXCEPT !.rules = MapGroups(group.rules, Rec)]

\* moveItem's inner addItemToTarget
RECURSIVE addItemToTarget(_, _, _, _)
addItemToTarget(group, targetGroupId, targetIndex, itemToMove) ==
    IF group.id = targetGroupId
    THEN [group EXCEPT !.rules = SpliceInsert(group.rules, targetIndex, itemToMove)]
    ELSE LET Rec(item) == addItemToTarget(item, targetGroupId, targetIndex, itemToMove)
         IN [group EXCEPT !.rules = MapGroups(group.rules, Rec)]

moveItem(rootGroup, itemId, targetGroupId, targetIndex) ==
    LET itemToMove == itemToMoveOf(rootGroup, itemId)
        groupWithoutItem == removeItem(rootGroup, itemId)
    IN IF itemToMove = Null THEN rootGroup
       ELSE addItemToTarget(groupWithoutItem, targetGroupId, targetIndex, itemToMove)

-----------------------------------------------------------------------------
(* History manager: useRuleBuilder.ts *)

MAX_HISTORY_SIZE == 50

createInitialState(rule) ==
    [rule |-> rule, history |-> <<rule>>, historyIndex |-> 0, errors |-> <<>>, isValid |-> TRUE]

\* Faulty variant of addToHistory: the log is never trimmed.
addToHistoryUncapped(st, newRule) ==
    LET pushed == Append(SubSeq(st.history, 1, st.historyIndex + 1), newRule)
    IN [st EXCEPT !.rule = newRule, !.history = pushed, !.historyIndex = Len(pushed) - 1]

\* Faulty variant of addToHistory: the entries after the cursor are kept.
addToHistoryKeepsTail(st, newRule) ==
    LET pushed == Append(st.history, newRule)
        newHistory == IF Len(pushed) > MAX_HISTORY_SIZE THEN Tail(pushed) ELSE pushed
    IN [st EXCEPT !.rule = newRule, !.history = newHistory, !.historyIndex = Len(newHistory) - 1]

\* Faulty variant of addToHistory: the cursor is counted from the log before
\* the entries after the cursor were discarded.
addToHistoryCursorPastEnd(st, newRule) ==
    LET pushed == Append(SubSeq(st.history, 1, st.historyIndex + 1), newRule)
        newHistory == IF Len(pushed) > MAX_HISTORY_SIZE THEN Tail(pushed) ELSE pushed
    IN [st EXCEPT !.rule = newRule, !.history = newHistory,
                  !.historyIndex = IF Len(st.history) < MAX_HISTORY_SIZE THEN Len(st.history)
                                   ELSE MAX_HISTORY_SIZE - 1]

\* historyIndex is 0-based as in the source; history[k] of the source is history[k + 1] here.
addToHistory(st, newRule) ==
    LET pushed == Append(SubSeq(st.history, 1, st.historyIndex + 1), newRule)
        newHistory == IF Len(pushed) > MAX_HISTORY_SIZE THEN Tail(pushed) ELSE pushed
    IN [st EXCEPT !.rule = newRule, !.history = newHistory, !.historyIndex = Len(newHistory) - 1]

findGroupById(rule, groupId) == findGroup(rule, groupId)

findRuleById(rule, ruleId) == findRule(rule, ruleId)

\* case 'TOGGLE_NOT'
ReduceToggleNot(st, action) ==
    LET group == findGroupById(st.rule, action.groupId)
    IN IF group # Null
       THEN addToHistory(st, updateGroup(st.rule, action.groupId, [not |-> ~GetNot(group)]))
       ELSE st

\* Faulty variant of ReduceUndo: the cursor moves, the current tree stays.
ReduceUndoCursorOnly(st) ==
    IF st.historyIndex > 0 THEN [st EXCEPT !.historyIndex = st.historyIndex - 1] ELSE st

\* case 'UNDO'
ReduceUndo(st) ==
    IF st.historyIndex > 0
    THEN LET newIndex == st.historyIndex - 1
         IN [st EXCEPT !.rule = st.history[newIndex + 1], !.historyIndex = newIndex]
    ELSE st

\* Faulty variant of ReduceRedo: the entries after the new cursor are dropped.
ReduceRedoDropsTail(st) ==
    IF st.historyIndex < Len(st.history) - 1
    THEN LET newIndex == st.historyIndex + 1
         IN [st EXCEPT !.rule = st.history[newIndex + 1], !.historyIndex = newIndex,
                       !.history = SubSeq(st.history, 1, newIndex + 1)]
    ELSE st

\* case 'REDO'
ReduceRedo(st) ==
    IF st.historyIndex < Len(st.history) - 1
    THEN LET newIndex == st.historyIndex + 1
         IN [st EXCEPT !.rule = st.history[newIndex + 1], !.historyIndex = newIndex]
    ELSE st

\* Faulty variant of ReduceReset: the tree is pushed onto the existing log.
ReduceResetPushes(st, action) == addToHistory(st, action.rule)

\* case 'RESET'
ReduceReset(st, action) == createInitialState(action.rule)

ruleBuilderReducer(st, action) ==
    CASE action.type = "ADD_RULE" ->
            addToHistory(st, addRuleToGroup(st.rule, action.groupId, action.rule))
      [] action.type = "UPDATE_RULE" ->
            addToHistory(st, updateRule(st.rule, action.ruleId, action.rule))
      [] action.type = "DELETE_RULE" ->
            addToHistory(st, deleteRule(st.rule, action.ruleId))
      [] action.type = "ADD_GROUP" ->
            addToHistory(st, addGroupToGroup(st.rule, action.parentGroupId, action.group))
      [] action.type = "UPDATE_GROUP" ->
            addToHistory(st, updateGroup(st.rule, action.groupId, action.group))
      [] action.type = "DELETE_GROUP" ->
            addToHistory(st, deleteGroup(st.rule, action.groupId))
      [] action.type = "SET_COMBINATOR" ->
            addToHistory(st, updateGroup(st.rule, action.groupId, [combinator |-> action.combinator]))
      [] action.type = "TOGGLE_NOT" -> ReduceToggleNot(st, action)
      [] action.type = "RESET" -> ReduceReset(st, action)
      [] action.type = "UNDO" -> ReduceUndo(st)
      [] action.type = "REDO" -> ReduceRedo(st)
      [] OTHER -> st

\* helpers.canUndo, helpers.canRedo
canUndo(st) == st.historyIndex > 0
canRedo(st) == st.historyIndex < Len(st.history) - 1

-----------------------------------------------------------------------------
(* Inputs *)

\* A tree with a rule and a nested group.
SampleRule ==
    [id |-> 1, combinator |-> "and",
     rules |-> << [id |-> 2, field |-> "age", operator |-> "equals", value |-> 0, combinator |-> "and"],
                  [id |-> 3, combinator |-> "or", rules |-> <<>>] >>]

\* The tree the editor starts from: a rule, a negated nested group holding a
\* rule and an empty group, all ids distinct.
EditTree ==
    [id |-> 1, combinator |-> "and",
     rules |-> << [id |-> 2, field |-> "age", operator |-> "equals", value |-> 0, combinator |-> "or"],
                  [id |-> 3, combinator |-> "or", not |-> TRUE, individualCombinator |-> "and",
                   rules |-> << [id |-> 4, field |-> "age", operator |-> "lessThan", value |-> 1,
                                 combinator |-> "and"],
                                [id |-> 5, combinator |-> "and", rules |-> <<>>] >>] >>]

\* The ids of a tree, in document order (the root first), with repetitions.
RECURSIVE IdSeq(_)
RECURSIVE IdSeqIn(_)
IdSeqIn(items) ==
    IF items = <<>> THEN <<>>
    ELSE (IF IsRule(Head(items)) THEN <<Head(items).id>> ELSE IdSeq(Head(items))) \o IdSeqIn(Tail(items))

IdSeq(group) == <<group.id>> \o IdSeqIn(group.rules)

Ids(group) == {IdSeq(group)[i] : i \in 1..Len(IdSeq(group))}

RECURSIVE GroupIds(_)
GroupIds(group) ==
    {group.id} \cup UNION {GroupIds(group.rules[i]) : i \in {j \in 1..Len(group.rules) : ~IsRule(group.rules[j])}}

RuleIds(group) == Ids(group) \ GroupIds(group)

\* An id no node of the input trees carries, and uuidv4() never returns.
MissingId == CHOOSE i \in 0..1 : i \notin Ids(SampleRule) \cup Ids(EditTree)

\* The first id uuidv4() hands out: above every id of the trees given as input.
FirstUuid == 1 + CHOOSE m \in Ids(SampleRule) : \A i \in Ids(SampleRule) : i <= m

\* The trees useRuleBuilder is constructed with: initialRule || createEmptyRuleGroup()
InitialRules == {createEmptyRuleGroup(1), SampleRule}

\* The edit actions offered to the reducer in state st, u being the next uuid:
\* each with the number of uuids its payload takes.
EditAlphabet(st, u) ==
    LET ids == Ids(st.rule) \cup {MissingId}
    IN   {[action |-> [type |-> "ADD_RULE", groupId |-> g, rule |-> createEmptyRule(Fields, u)],
           fresh |-> 1] : g \in ids}
    \cup {[action |-> [type |-> "UPDATE_RULE", ruleId |-> r,
                       rule |-> [id |-> r, field |-> "age", operator |-> "greaterThan",
                                 value |-> 18, combinator |-> "or"]],
           fresh |-> 0] : r \in ids}
    \cup {[action |-> [type |-> "DELETE_RULE", ruleId |-> r], fresh |-> 0] : r \in ids}
    \cup {[action |-> [type |-> "ADD_GROUP", parentGroupId |-> g, group |-> createEmptyRuleGroup(u)],
           fresh |-> 1] : g \in ids}
    \cup {[action |-> [type |-> "UPDATE_GROUP", groupId |-> g,
                       group |-> [individualCombinator |-> "or"]],
           fresh |-> 0] : g \in ids}
    \cup {[action |-> [type |-> "DELETE_GROUP", groupId |-> g], fresh |-> 0] : g \in ids}
    \cup {[action |-> [type |-> "SET_COMBINATOR", groupId |-> g, combinator |-> "or"],
           fresh |-> 0] : g \in ids}
    \cup {[action |-> [type |-> "TOGGLE_NOT", groupId |-> g], fresh |-> 0] : g \in ids}

\* The edits offered on a log longer than FreeLog.
TailAlphabet(st) ==
    {[action |-> [type |-> "TOGGLE_NOT", groupId |-> g], fresh |-> 0] : g \in {st.rule.id, MissingId}}

EditTypes ==
    {"ADD_RULE", "UPDATE_RULE", "DELETE_RULE", "ADD_GROUP", "UPDATE_GROUP", "DELETE_GROUP",
     "SET_COMBINATOR", "TOGGLE_NOT"}

-----------------------------------------------------------------------------
(* The reducer under every interleaving of edits, reset, undo and redo *)

Offered(st, u) ==
    {e \in (IF Len(st.history) <= FreeLog THEN EditAlphabet(st, u) ELSE TailAlphabet(st)) :
        u + e.fresh <= FirstUuid + UuidSupply}

\* dispatch(action) for an edit action of the given type
Step(type) ==
    \E e \in Offered(state, uuid) :
        /\ e.action.type = type
        /\ state' = ruleBuilderReducer(state, e.action)
        /\ uuid' = uuid + e.fresh

DispatchEdit(type) == Step(type) /\ UNCHANGED <<orig, edits, editVars, fmtVars, auxVars>>

AddRule == DispatchEdit("ADD_RULE")
UpdateRule == DispatchEdit("UPDATE_RULE")
DeleteRule == DispatchEdit("DELETE_RULE")
AddGroup == DispatchEdit("ADD_GROUP")
UpdateGroup == DispatchEdit("UPDATE_GROUP")
DeleteGroup == DispatchEdit("DELETE_GROUP")
SetCombinator == DispatchEdit("SET_COMBINATOR")
ToggleNot == DispatchEdit("TOGGLE_NOT")

\* actions.reset(rule): rule || createEmptyRuleGroup()
ResetTo(rule, fresh) ==
    /\ uuid + fresh <= FirstUuid + UuidSupply
    /\ state' = ruleBuilderReducer(state, [type |-> "RESET", rule |-> rule])
    /\ uuid' = uuid + fresh
    /\ UNCHANGED <<orig, edits, editVars, fmtVars, auxVars>>

Reset == ResetTo(SampleRule, 0) \/ ResetTo(createEmptyRuleGroup(uuid), 1)

Undo ==
    /\ state' = ruleBuilderReducer(state, [type |-> "UNDO"])
    /\ UNCHANGED <<uuid, orig, edits, editVars, fmtVars, auxVars>>

Redo ==
    /\ state' = ruleBuilderReducer(state, [type |-> "REDO"])
    /\ UNCHANGED <<uuid, orig, edits, editVars, fmtVars, auxVars>>

FmtIdle == formatInput = Null /\ formatOutput = Null

ValIdle == valInput = Null /\ valOutput = Null

ApiIdle == api = Null /\ apiLog = Null

StoreIdle == storage = Null /\ storageResult = Null

AuxIdle == ValIdle /\ ApiIdle /\ StoreIdle

EditIdle ==
    /\ tree = Null /\ nextId = 0 /\ steps = 0

Init ==
    /\ \E rule \in InitialRules : state = createInitialState(rule)
    /\ uuid = FirstUuid
    /\ orig = Null
    /\ edits = -1
    /\ EditIdle
    /\ FmtIdle
    /\ AuxIdle

Next ==
    \/ AddRule \/ UpdateRule \/ DeleteRule
    \/ AddGroup \/ UpdateGroup \/ DeleteGroup
    \/ SetCombinator \/ ToggleNot
    \/ Reset \/ Undo \/ Redo

Spec == Init /\ [][Next]_vars

-----------------------------------------------------------------------------
(* Runs of edits from construction, for the undo/redo inverse *)

RunEdit(type) ==
    /\ edits < MaxRun
    /\ Step(type)
    /\ edits' = edits + 1
    /\ UNCHANGED <<orig, editVars, fmtVars, auxVars>>

InitRun ==
    /\ \E rule \in InitialRules : state = createInitialState(rule) /\ orig = rule
    /\ uuid = FirstUuid
    /\ edits = 0
    /\ EditIdle
    /\ FmtIdle
    /\ AuxIdle

NextRun == \E type \in EditTypes : RunEdit(type)

SpecRun == InitRun /\ [][NextRun]_vars

\* dispatch(action) n times: the first half of the dispatches, then the rest
\* from the state they leave (drawn from a singleton set, so that it is
\* computed before the rest is applied).
RECURSIVE Repeat(_, _, _)
Repeat(st, action, n) ==
    IF n = 0 THEN st
    ELSE IF n = 1 THEN ruleBuilderReducer(st, action)
    ELSE CHOOSE r \in {Repeat(mid, action, n - (n \div 2)) : mid \in {Repeat(st, action, n \div 2)}} : TRUE

UndoneThenRedone ==
    LET undone == Repeat(state, [type |-> "UNDO"], edits)
        redone == Repeat(undone, [type |-> "REDO"], edits)
    IN undone.rule = orig /\ redone.rule = state.rule

\* C1 as stated: after any n edits from the initial state, n UNDOs give the
\* original tree and n REDOs after them give the tree the n-th edit produced.
C1_UndoRedoInverseAnyN == UndoneThenRedone

\* C1, amended: after n <= MAX_HISTORY_SIZE - 1 edits from the initial state
\* (so that the log never dropped its oldest entry), n UNDOs give the original
\* tree and n REDOs after them give the tree the n-th edit produced.
C1_UndoRedoInverse == edits < MAX_HISTORY_SIZE => UndoneThenRedone

C1_Witness == edits = MAX_HISTORY_SIZE - 1 /\ Len(state.history) = MAX_HISTORY_SIZE /\ state.rule # orig

-----------------------------------------------------------------------------
(* Claims about the history manager *)

\* C2: in every reachable state the history holds at least 1 and at most
\* MAX_HISTORY_SIZE (50) trees.
C2_HistoryBounded == Len(state.history) >= 1 /\ Len(state.history) <= MAX_HISTORY_SIZE

\* A full log whose oldest entry is already a toggled tree: the original was dropped.
C2_Witness == Len(state.history) = MAX_HISTORY_SIZE /\ "not" \in DOMAIN state.history[1]

\* What C3 says of an edit dispatched in st and leaving `after`: if the cursor
\* was not at the tip, the entries after it are discarded and the new tree is
\* appended; in any case the cursor is then at the tip, so that redo is a no-op.
Pushed(st, after) ==
    LET kept == SubSeq(st.history, 1, st.historyIndex + 1)
    IN /\ canRedo(st) => after.history = kept \o <<after.rule>>
       /\ after.historyIndex = Len(after.history) - 1
       /\ after.rule = after.history[Len(after.history)]
       /\ ~canRedo(after)
       /\ ruleBuilderReducer(after, [type |-> "REDO"]) = after

\* C3 as stated: after any edit dispatched in a reachable state the redo tail
\* is gone, the cursor is at the tip, canRedo is false and REDO changes nothing.
C3_EditTruncatesAnyEdit ==
    \A e \in Offered(state, uuid) : Pushed(state, ruleBuilderReducer(state, e.action))

\* The edit is a TOGGLE_NOT whose groupId names no group of the current tree.
ToggleOfMissingGroup(st, action) ==
    action.type = "TOGGLE_NOT" /\ findGroupById(st.rule, action.groupId) = Null

\* C3, amended: the same for every edit except a TOGGLE_NOT whose groupId
\* names no group, which leaves the whole state, redo tail included, unchanged.
C3_EditTruncates ==
    \A e \in Offered(state, uuid) :
        IF ToggleOfMissingGroup(state, e.action)
        THEN ruleBuilderReducer(state, e.action) = state
        ELSE Pushed(state, ruleBuilderReducer(state, e.action))

\* The cursor is not at the tip and an offered edit discards at least two entries.
C3_Witness ==
    /\ canRedo(state)
    /\ \E e \in Offered(state, uuid) :
          Len(ruleBuilderReducer(state, e.action).history) < Len(state.history) - 1

\* C4: UNDO and REDO leave the log as it is and change only historyIndex and
\* the current tree; UNDO at index 0 and REDO at the tip change nothing.
C4_UndoRedoMoveCursorOnly ==
    LET undone == ruleBuilderReducer(state, [type |-> "UNDO"])
        redone == ruleBuilderReducer(state, [type |-> "REDO"])
    IN /\ undone = [state EXCEPT !.rule = undone.rule, !.historyIndex = undone.historyIndex]
       /\ redone = [state EXCEPT !.rule = redone.rule, !.historyIndex = redone.historyIndex]
       /\ state.historyIndex = 0 => undone = state
       /\ state.historyIndex = Len(state.history) - 1 => redone = state
       /\ state.historyIndex > 0 => undone.historyIndex = state.historyIndex - 1
       /\ state.historyIndex < Len(state.history) - 1 => redone.historyIndex = state.historyIndex + 1

\* The cursor has been moved back from the tip and can move either way.
C4_Witness == canUndo(state) /\ canRedo(state) /\ state.rule # state.history[Len(state.history)]

\* The trees reset is called with in a state: a caller's tree, or a new empty group.
ResetInputs(u) == {SampleRule, createEmptyRuleGroup(u)}

\* C5: RESET with tree T yields current tree T, history <<T>> and historyIndex
\* 0, with neither undo nor redo possible.
C5_ResetClearsLog ==
    \A T \in ResetInputs(uuid) :
        LET after == ruleBuilderReducer(state, [type |-> "RESET", rule |-> T])
        IN /\ after.rule = T
           /\ after.history = <<T>>
           /\ after.historyIndex = 0
           /\ ~canUndo(after) /\ ~canRedo(after)

\* The state a reset to a new empty group leaves.
C5_Witness == state.history = <<state.rule>> /\ state.rule.id >= FirstUuid

-----------------------------------------------------------------------------
(* The structural editor under sequences of edits, clones and moves *)

FirstEditUuid == 1 + CHOOSE m \in Ids(EditTree) : \A i \in Ids(EditTree) : i <= m

\* Index paths from a group to the groups inside it, itself (<<>>) included.
RECURSIVE GroupPaths(_)
GroupPaths(group) ==
    {<<>>} \cup UNION {{<<i>> \o q : q \in GroupPaths(group.rules[i])} :
                        i \in {j \in 1..Len(group.rules) : ~IsRule(group.rules[j])}}

RECURSIVE GroupAt(_, _)
GroupAt(group, path) == IF path = <<>> THEN group ELSE GroupAt(group.rules[Head(path)], Tail(path))

\* Faulty variant of handleRuleClone: the clone is put before the original.
handleRuleCloneBefore(group, index, u) ==
    LET ruleToClone == group.rules[index]
        clonedItem == IF IsRule(ruleToClone) THEN cloneRule(ruleToClone, u)
                      ELSE cloneRuleGroup(ruleToClone, u)
    IN [group EXCEPT !.rules = SpliceInsert(group.rules, index - 1, clonedItem)]

\* RuleGroup.tsx handleRuleClone(index) of the component showing `group`
\* (index 0-based in the source, 1-based here): the group it hands to onChange.
handleRuleClone(group, index, u) ==
    LET ruleToClone == group.rules[index]
        clonedItem == IF IsRule(ruleToClone) THEN cloneRule(ruleToClone, u)
                      ELSE cloneRuleGroup(ruleToClone, u)
    IN [group EXCEPT !.rules = SpliceInsert(group.rules, index, clonedItem)]

\* RuleGroup.tsx handleGroupChange(index, updatedNestedGroup)
handleGroupChange(group, index, updatedNestedGroup) ==
    [group EXCEPT !.rules = [group.rules EXCEPT ![index] = updatedNestedGroup]]

\* onChange(updated) of the component at `path`, handed up through the
\* handleGroupChange of every enclosing component
RECURSIVE onChangeAt(_, _, _)
onChangeAt(group, path, updated) ==
    IF path = <<>> THEN updated
    ELSE handleGroupChange(group, Head(path), onChangeAt(group.rules[Head(path)], Tail(path), updated))

\* RuleBuilder's handleRuleGroupChange: updateGroup(rule.id, updatedGroup)
handleRuleGroupChange(rule, updatedGroup) == updateGroup(rule, rule.id, updatedGroup)

\* The number of nodes of an item
RECURSIVE Size(_)
Size(item) == IF IsRule(item) THEN 1 ELSE Len(IdSeq(item))

\* useRuleBuilder actions.cloneRule(ruleId, targetGroupId): the tree ADD_RULE leaves
HookCloneRule(rule, ruleId, targetGroupId, u) ==
    LET originalRule == findRuleById(rule, ruleId)
    IN IF originalRule # Null
       THEN addRuleToGroup(rule, targetGroupId, cloneRule(originalRule, u))
       ELSE rule

\* useRuleBuilder actions.cloneGroup(groupId, targetGroupId): the tree ADD_GROUP leaves
HookCloneGroup(rule, groupId, targetGroupId, u) ==
    LET originalGroup == findGroupById(rule, groupId)
    IN IF originalGroup # Null
       THEN addGroupToGroup(rule, targetGroupId, cloneRuleGroup(originalGroup, u))
       ELSE rule

IdInputs(t) == Ids(t) \cup {MissingId}

UuidLeft == FirstEditUuid + EditUuidSupply - nextId

Applied(newTree, used) ==
    /\ steps < MaxSteps
    /\ used <= UuidLeft
    /\ tree' = newTree
    /\ nextId' = nextId + used
    /\ steps' = steps + 1
    /\ UNCHANGED <<histVars, fmtVars, auxVars>>

EAddRule == \E g \in IdInputs(tree) : Applied(addRuleToGroup(tree, g, createEmptyRule(Fields, nextId)), 1)

EAddGroup == \E g \in IdInputs(tree) : Applied(addGroupToGroup(tree, g, createEmptyRuleGroup(nextId)), 1)

\* The rule passed to updateRule: any id the caller puts in it
EUpdateRule ==
    \E r \in IdInputs(tree) : \E newId \in {r, tree.id} :
        Applied(updateRule(tree, r, [id |-> newId, field |-> "age", operator |-> "greaterThan",
                                     value |-> 18, combinator |-> "or"]), 0)

EUpdateGroup ==
    \E g \in IdInputs(tree), patch \in {[combinator |-> "or"], [id |-> 2, not |-> FALSE]} :
        Applied(updateGroup(tree, g, patch), 0)

EDeleteRule == \E r \in IdInputs(tree) : Applied(deleteRule(tree, r), 0)

EDeleteGroup == \E g \in IdInputs(tree) : Applied(deleteGroup(tree, g), 0)

ECloneRule ==
    \E r \in IdInputs(tree), g \in IdInputs(tree) :
        /\ findRuleById(tree, r) # Null
        /\ Applied(HookCloneRule(tree, r, g, nextId), 1)

ECloneGroup ==
    \E o \in IdInputs(tree), g \in IdInputs(tree) :
        /\ findGroupById(tree, o) # Null
        /\ Applied(HookCloneGroup(tree, o, g, nextId), Size(findGroupById(tree, o)))

\* The clone button: RuleGroup.tsx passes onClone to its Rule children only
EHandleRuleClone ==
    \E path \in GroupPaths(tree) :
        \E index \in {i \in 1..Len(GroupAt(tree, path).rules) : IsRule(GroupAt(tree, path).rules[i])} :
            Applied(handleRuleGroupChange(tree,
                        onChangeAt(tree, path, handleRuleClone(GroupAt(tree, path), index, nextId))),
                    Size(GroupAt(tree, path).rules[index]))

\* The config prop of a RuleGroup component: maxNestingDepth is optional
Configs == {[dragAndDrop |-> TRUE]} \cup {[maxNestingDepth |-> d] : d \in 0..2}

\* RuleGroup.tsx maxDepthReached of a component at nesting level `level`
maxDepthReached(config, level) ==
    "maxNestingDepth" \in DOMAIN config /\ level >= config.maxNestingDepth

\* RuleGroup.tsx handleAddGroup of the component showing `group`: the group
\* it hands to onChange, Null when it returns without calling onChange
handleAddGroup(group, level, config, u) ==
    IF maxDepthReached(config, level) THEN Null
    ELSE [group EXCEPT !.rules = Append(group.rules, createEmptyRuleGroup(u))]

\* The tree after the "+ Group" handler of the component at `path` (the root
\* component has level 0, a nested one its parent's level + 1)
AfterHandleAddGroup(t, path, config, u) ==
    LET updatedGroup == handleAddGroup(GroupAt(t, path), Len(path), config, u)
    IN IF updatedGroup = Null THEN t
       ELSE handleRuleGroupChange(t, onChangeAt(t, path, updatedGroup))

EHandleAddGroup ==
    \E path \in GroupPaths(tree), config \in Configs :
        Applied(AfterHandleAddGroup(tree, path, config, nextId),
                IF maxDepthReached(config, Len(path)) THEN 0 ELSE 1)

\* targetIndex: every position of the longest child list, one past it, and -1
IndexInputs(t) == -1 .. (1 + Len(IdSeq(t)))

EMove ==
    \E item \in IdInputs(tree), target \in IdInputs(tree), targetIndex \in IndexInputs(tree) :
        Applied(moveItem(tree, item, target, targetIndex), 0)

HistIdle == state = Null /\ uuid = 0 /\ orig = Null /\ edits = -1

InitEdit ==
    /\ tree = EditTree
    /\ nextId = FirstEditUuid
    /\ steps = 0
    /\ HistIdle
    /\ FmtIdle
    /\ AuxIdle

NextEdit ==
    \/ EAddRule \/ EAddGroup \/ EUpdateRule \/ EUpdateGroup
    \/ EDeleteRule \/ EDeleteGroup
    \/ ECloneRule \/ ECloneGroup \/ EHandleRuleClone
    \/ EHandleAddGroup
    \/ EMove

SpecEdit == InitEdit /\ [][NextEdit]_vars

-----------------------------------------------------------------------------
(* Ids, clones and moves *)

\* Every node of an item, the item included
RECURSIVE SubItems(_)
SubItems(item) ==
    IF IsRule(item) THEN {item}
    ELSE {item} \cup UNION {SubItems(item.rules[i]) : i \in 1..Len(item.rules)}

ItemIds(item) == {n.id : n \in SubItems(item)}

\* The ids of the groups of an item: none for a rule
SubGroupIds(item) == IF IsRule(item) THEN {} ELSE GroupIds(item)

Occurrences(t, id) == Cardinality({i \in 1..Len(IdSeq(t)) : IdSeq(t)[i] = id})

\* id names a node of t: exactly one node carries it
Names(t, id) == Occurrences(t, id) = 1

UniqueIds(t) == \A id \in Ids(t) : Names(t, id)

ChildIds(group) == [i \in 1..Len(group.rules) |-> group.rules[i].id]

Without(ids, id) == LET Other(x) == x # id IN SelectSeq(ids, Other)

\* An item with every id blanked: kinds, child order and contents remain
RECURSIVE StripIds(_)
StripIds(item) ==
    IF IsRule(item) THEN [item EXCEPT !.id = MissingId]
    ELSE [item EXCEPT !.id = MissingId,
                      !.rules = [i \in 1..Len(item.rules) |-> StripIds(item.rules[i])]]

CloneOf(item, u) == IF IsRule(item) THEN cloneRule(item, u) ELSE cloneRuleGroup(item, u)

\* C6: starting from a tree with pairwise distinct ids, after any sequence of
\* structural edits no two nodes of the current tree share an id.
C6_IdsUnique == tree # Null => UniqueIds(tree)

\* C7: the clone of any subtree S of the tree has the shape and contents of S,
\* and its nodes carry ids that are pairwise distinct and occur nowhere in the
\* tree, S included.
C7_CloneFresh ==
    tree # Null =>
        \A S \in SubItems(tree) :
            LET c == CloneOf(S, nextId)
            IN /\ StripIds(c) = StripIds(S)
               /\ ItemIds(c) \cap Ids(tree) = {}
               /\ Cardinality(ItemIds(c)) = Size(S)

\* A group of the starting tree and its clone are both in the tree.
C7_Witness ==
    /\ tree # Null
    /\ \E S \in SubItems(tree), c \in SubItems(tree) :
          /\ ~IsRule(S) /\ Len(S.rules) = 2 /\ GetNot(S)
          /\ S.id < FirstEditUuid
          /\ ItemIds(c) \cap Ids(EditTree) = {}
          /\ StripIds(c) = StripIds(S)

\* The clone button on child `index` of the group at `path`: the clone is the
\* next child of that group and the other children are as they were.
CloneButtonInsertsAfter ==
    \A path \in GroupPaths(tree) :
        \A index \in 1..Len(GroupAt(tree, path).rules) :
            LET g == GroupAt(tree, path)
                t2 == handleRuleGroupChange(tree, onChangeAt(tree, path, handleRuleClone(g, index, nextId)))
                g2 == GroupAt(t2, path)
            IN /\ g2.id = g.id
               /\ g2.rules[index] = g.rules[index]
               /\ g2.rules[index + 1] = CloneOf(g.rules[index], nextId)
               /\ RemoveAt(g2.rules, index + 1) = g.rules

HookClone(t, id, targetGroupId, u) ==
    IF findRuleById(t, id) # Null THEN HookCloneRule(t, id, targetGroupId, u)
    ELSE HookCloneGroup(t, id, targetGroupId, u)

HookOriginal(t, id) == IF findRuleById(t, id) # Null THEN findRuleById(t, id) ELSE findGroupById(t, id)

\* The ids the hook's clone actions find a node for
Clonable(t) == {id \in Ids(t) : findRuleById(t, id) # Null \/ findGroupById(t, id) # Null}

\* C8 as stated, for both clone paths: the clone is the child right after the
\* original in the original's parent.
C8_CloneAfterOriginalAnyPath ==
    tree # Null =>
        /\ CloneButtonInsertsAfter
        /\ \A id \in Clonable(tree) \ {tree.id}, target \in GroupIds(tree) :
              Names(tree, id) /\ Names(tree, target) =>
                  LET parent == findParentGroup(tree, id)
                      i == FindIndex(parent.rules, id)
                      p2 == findGroup(HookClone(tree, id, target, nextId), parent.id)
                  IN /\ Len(p2.rules) = Len(parent.rules) + 1
                     /\ p2.rules[i + 1].id = nextId
                     /\ RemoveAt(p2.rules, i + 1) = parent.rules

\* C8: the component's clone button inserts the clone right after the original
\* in its parent; the hook's cloneRule / cloneGroup append the clone as the
\* last child of the target group the caller names, and change nothing when
\* the target names no group.
C8_CloneAfterOriginal ==
    tree # Null =>
        /\ CloneButtonInsertsAfter
        /\ \A id \in Clonable(tree), target \in IdInputs(tree) :
              LET t2 == HookClone(tree, id, target, nextId)
              IN IF target \in GroupIds(tree)
                 THEN Names(tree, target) =>
                        LET tg == findGroup(tree, target)
                            tg2 == findGroup(t2, target)
                        IN tg2.rules = Append(tg.rules, CloneOf(HookOriginal(tree, id), nextId))
                 ELSE t2 = tree

\* The clone button has put a clone between a rule and the sibling after it.
C8_Witness ==
    /\ tree # Null
    /\ \E path \in GroupPaths(tree) :
          LET g == GroupAt(tree, path)
          IN \E i \in 1..Len(g.rules) :
                /\ i + 2 <= Len(g.rules)
                /\ g.rules[i].id < FirstEditUuid
                /\ g.rules[i + 1].id >= FirstEditUuid
                /\ g.rules[i + 2].id < FirstEditUuid
                /\ StripIds(g.rules[i + 1]) = StripIds(g.rules[i])

\* C9: moving a group into itself or into a group of its own subtree returns
\* the tree unchanged.
C9_MoveIntoDescendantRejected ==
    tree # Null =>
        \A g \in GroupIds(tree) \ {tree.id} :
            Names(tree, g) =>
                \A target \in GroupIds(findGroup(tree, g)), targetIndex \in IndexInputs(tree) :
                    moveItem(tree, g, target, targetIndex) = tree

\* The node of t that id names
NodeOf(t, id) == CHOOSE n \in SubItems(t) : n.id = id

\* C10: for id naming a non-root node, targetGroupId naming a group outside
\* that node's subtree and targetIndex within the target's children after
\* detachment, the node is child targetIndex of the target, it is no longer
\* among its former parent's children unless that parent is the target, and
\* the other children of every group keep their order.
C10_MovePlaces ==
    tree # Null =>
        \A id \in Ids(tree) \ {tree.id}, target \in GroupIds(tree) :
            (Names(tree, id) /\ Names(tree, target) /\ target \notin SubGroupIds(NodeOf(tree, id))) =>
                LET node == NodeOf(tree, id)
                    parent == findParentGroup(tree, id)
                    tg == findGroup(tree, target)
                IN \A targetIndex \in 0..Len(Without(ChildIds(tg), id)) :
                      LET t2 == moveItem(tree, id, target, targetIndex)
                          tg2 == findGroup(t2, target)
                      IN /\ tg2.rules[targetIndex + 1] = node
                         /\ RemoveAt(ChildIds(tg2), targetIndex + 1) = Without(ChildIds(tg), id)
                         /\ Names(t2, id)
                         /\ \A g \in GroupIds(tree) \ ({target} \cup SubGroupIds(node)) :
                               ChildIds(findGroup(t2, g)) = Without(ChildIds(findGroup(tree, g)), id)
                         /\ \A g \in SubGroupIds(node) : findGroup(t2, g) = findGroup(tree, g)

\* Rule 2 of the starting tree has been moved from the root into group 5, two
\* levels down.
C10_Witness ==
    /\ tree # Null
    /\ UniqueIds(tree)
    /\ findParentGroup(tree, 2) # Null
    /\ findParentGroup(tree, 2).id = 5
    /\ findRule(tree, 2) = findRule(EditTree, 2)

-----------------------------------------------------------------------------
(* Updates, deletions and edits naming no node *)

\* The rule handed to updateRule, carrying the id the caller put in it
UpdatedRule(newId) ==
    [id |-> newId, field |-> "age", operator |-> "greaterThan", value |-> 18, combinator |-> "or"]

\* The partial groups handed to updateGroup: with and without an id of their own
GroupPatches(u) == {[combinator |-> "or"], [id |-> u, not |-> FALSE], [id |-> 2, combinator |-> "or"]}

\* The ids of the rules / of the groups of a tree, as the editors match them
RuleIdsOf(t) == {n.id : n \in {x \in SubItems(t) : IsRule(x)}}

\* C11: updateRule and updateGroup leave the id of the updated node as it was,
\* even when the rule or patch passed in carries another id: the ids of the
\* tree, in document order, are the same after the call.
C11_UpdatePreservesId ==
    tree # Null =>
        /\ \A r \in RuleIdsOf(tree) : \A newId \in {r, nextId} :
              IdSeq(updateRule(tree, r, UpdatedRule(newId))) = IdSeq(tree)
        /\ \A g \in GroupIds(tree), patch \in GroupPatches(nextId) :
              IdSeq(updateGroup(tree, g, patch)) = IdSeq(tree)

\* The half of C11 about updateGroup alone.
C11_UpdateGroupPreservesId ==
    tree # Null =>
        \A g \in GroupIds(tree), patch \in GroupPatches(nextId) :
            IdSeq(updateGroup(tree, g, patch)) = IdSeq(tree)

\* The nodes of an item in document order, each with its depth and without
\* its children: two trees with the same list are the same tree.
RECURSIVE Flat(_, _)
RECURSIVE FlatIn(_, _)
FlatIn(items, depth) ==
    IF items = <<>> THEN <<>> ELSE Flat(Head(items), depth) \o FlatIn(Tail(items), depth)

Flat(item, depth) ==
    IF IsRule(item) THEN <<[node |-> item, depth |-> depth]>>
    ELSE <<[node |-> [item EXCEPT !.rules = <<>>], depth |-> depth]>> \o FlatIn(item.rules, depth + 1)

\* The entries of s whose flag in keep is TRUE, in order
RECURSIVE Compact(_, _)
Compact(s, keep) ==
    IF s = <<>> THEN <<>>
    ELSE (IF Head(keep) THEN <<Head(s)>> ELSE <<>>) \o Compact(Tail(s), Tail(keep))

\* Entry j of the list f lies in the subtree of entry i
InSubtree(f, i, j) == i <= j /\ \A k \in (i + 1)..j : f[k].depth > f[i].depth

\* The list f without the rules of id `id`
WithoutRule(f, id) ==
    Compact(f, [j \in 1..Len(f) |-> ~(IsRule(f[j].node) /\ f[j].node.id = id)])

\* The list f without the groups of id `id` and everything inside them
WithoutGroup(f, id) ==
    Compact(f, [j \in 1..Len(f) |->
                   ~\E i \in 1..j : ~IsRule(f[i].node) /\ f[i].node.id = id /\ InSubtree(f, i, j)])

\* C12: deleteRule removes the rules of the given id at every depth and
\* deleteGroup the group of the given id with its whole subtree; every other
\* node stays, with its content, depth and place in the order; deleteGroup
\* with the root's id returns the tree as it is.
C12_DeleteRemoves ==
    tree # Null =>
        \A id \in IdInputs(tree) :
            /\ Flat(deleteRule(tree, id), 0) = WithoutRule(Flat(tree, 0), id)
            /\ id # tree.id => Flat(deleteGroup(tree, id), 0) = WithoutGroup(Flat(tree, 0), id)
            /\ id = tree.id => deleteGroup(tree, id) = tree

\* Rule 4 and group 5, both two levels down, have been deleted from the starting tree.
C12_Witness == tree # Null /\ IdSeq(tree) = <<1, 2, 3>> /\ tree = deleteGroup(deleteRule(EditTree, 4), 5)

\* Adding a group under the group at `path` with limit config.maxNestingDepth,
\* `after` being the tree the call leaves: the tree is unchanged if the new
\* group would lie deeper than the limit, and otherwise the target has one
\* more child, last, an empty group with combinator "and".
AddedWithinDepth(path, config, after) ==
    IF Len(path) + 1 > config.maxNestingDepth THEN after = tree
    ELSE /\ GroupAt(after, path).rules = Append(GroupAt(tree, path).rules, createEmptyRuleGroup(nextId))
         /\ createEmptyRuleGroup(nextId).combinator = "and"
         /\ after = onChangeAt(tree, path, GroupAt(after, path))

\* C13: adding a group, through the component's handleAddGroup or through
\* addGroupToGroup, appends an empty "and" group to the target unless the new
\* group's depth would exceed the configured maximum, and is a no-op then.
C13_AddGroupRespectsDepth ==
    tree # Null /\ UniqueIds(tree) =>
        \A path \in GroupPaths(tree), config \in {c \in Configs : "maxNestingDepth" \in DOMAIN c} :
            /\ AddedWithinDepth(path, config, AfterHandleAddGroup(tree, path, config, nextId))
            /\ AddedWithinDepth(path, config,
                   addGroupToGroup(tree, GroupAt(tree, path).id, createEmptyRuleGroup(nextId)))

\* The half of C13 about the component's handleAddGroup alone; without a
\* configured maximum it always appends.
C13_HandleAddGroupRespectsDepth ==
    tree # Null =>
        \A path \in GroupPaths(tree), config \in Configs :
            LET after == AfterHandleAddGroup(tree, path, config, nextId)
            IN IF "maxNestingDepth" \in DOMAIN config THEN AddedWithinDepth(path, config, after)
               ELSE GroupAt(after, path).rules = Append(GroupAt(tree, path).rules, createEmptyRuleGroup(nextId))

\* C14: addRuleToGroup, addGroupToGroup, updateGroup and deleteGroup called
\* with an id that no group of the tree carries, and updateRule and deleteRule
\* called with an id that no rule of the tree carries, return a tree equal to
\* the input.
C14_MissingIdIsNoOp ==
    tree # Null =>
        \A id \in IdInputs(tree) :
            /\ id \notin GroupIds(tree) =>
                  /\ addRuleToGroup(tree, id, createEmptyRule(Fields, nextId)) = tree
                  /\ addGroupToGroup(tree, id, createEmptyRuleGroup(nextId)) = tree
                  /\ \A patch \in GroupPatches(nextId) : updateGroup(tree, id, patch) = tree
                  /\ deleteGroup(tree, id) = tree
            /\ id \notin RuleIdsOf(tree) =>
                  /\ updateRule(tree, id, UpdatedRule(id)) = tree
                  /\ updateRule(tree, id, UpdatedRule(nextId)) = tree
                  /\ deleteRule(tree, id) = tree

\* Two edits naming no node have been applied to the starting tree, which has
\* rules and groups at two depths.
C14_Witness ==
    /\ tree = EditTree
    /\ steps = MaxSteps
    /\ nextId = FirstEditUuid
    /\ deleteRule(tree, MissingId) = tree

-----------------------------------------------------------------------------
(* Formatters: readable string, SQL WHERE clause, MongoDB query *)

\* A string is the sequence of its pieces, "" the empty sequence, and a
\* template literal the concatenation of its parts.  A MongoDB object is a
\* function from its keys, {} the function with no key, an array a sequence.

\* The catalog handed to the formatters: a number field and a string field.
FormatFields ==
    << [name |-> "age", label |-> "Age", type |-> "number"],
       [name |-> "name", label |-> "Name", type |-> "string"] >>

\* fields.find(f => f.name === rule.field), Null for undefined
FindField(fields, name) ==
    LET hits == {i \in 1..Len(fields) : fields[i].name = name}
    IN IF hits = {} THEN Null ELSE fields[CHOOSE i \in hits : \A j \in hits : i <= j]

\* Values of a string field are strings, all other values numbers.
IsStringValue(field) == field # Null /\ field.type = "string"

getOperatorLabel(operator) ==
    CASE operator = "equals" -> "equals"
      [] operator = "notEquals" -> "does not equal"
      [] operator = "contains" -> "contains"
      [] operator = "isEmpty" -> "is empty"
      [] operator = "isNotEmpty" -> "is not empty"
      [] operator = ">" -> "is greater than"
      [] operator = "<" -> "is less than"
      [] OTHER -> operator

formatRuleToReadableString(rule, fields) ==
    LET field == FindField(fields, rule.field)
        fieldLabel == IF field # Null /\ field.label # "" THEN field.label ELSE rule.field
        formattedValue == IF IsStringValue(field) THEN <<"\"", rule.value, "\"">>
                          ELSE <<ToString(rule.value)>>
    IN IF rule.operator \in {"isEmpty", "isNotEmpty", "isTrue", "isFalse"}
       THEN <<fieldLabel, " ", getOperatorLabel(rule.operator)>>
       ELSE <<fieldLabel, " ", getOperatorLabel(rule.operator), " ">> \o formattedValue

\* combinator.toUpperCase()
toUpperCase(combinator) == IF combinator = "and" THEN "AND" ELSE IF combinator = "or" THEN "OR" ELSE combinator

\* Faulty variant of CombinatorAfter: the child's own connector is ignored.
CombinatorAfterGroupOnly(rule, group) == group.combinator

\* rule.individualCombinator || group.combinator for a nested group,
\* rule.combinator || group.combinator for a rule
CombinatorAfter(rule, group) ==
    IF "rules" \in DOMAIN rule
    THEN (IF "individualCombinator" \in DOMAIN rule THEN rule.individualCombinator ELSE group.combinator)
    ELSE (IF "combinator" \in DOMAIN rule THEN rule.combinator ELSE group.combinator)

RECURSIVE formatRuleGroupToReadableString(_, _)
RECURSIVE ReadableFrom(_, _, _)
\* The loop of formatRuleGroupToReadableString from child i on: what it pushes, joined
ReadableFrom(group, i, fields) ==
    IF i > Len(group.rules) THEN <<>>
    ELSE LET rule == group.rules[i]
             nestedString == formatRuleGroupToReadableString(rule, fields)
             ruleString == IF "rules" \in DOMAIN rule
                           THEN (IF nestedString # <<>> THEN <<"(">> \o nestedString \o <<")">> ELSE <<>>)
                           ELSE formatRuleToReadableString(rule, fields)
             pushed == IF ruleString # <<>>
                       THEN ruleString \o (IF i < Len(group.rules)
                                           THEN <<" ", toUpperCase(CombinatorAfter(rule, group)), " ">>
                                           ELSE <<>>)
                       ELSE <<>>
         IN pushed \o ReadableFrom(group, i + 1, fields)

\* Faulty variant of formatRuleGroupToReadableString: no early return for a
\* group without children, so that a negated one is wrapped.
formatRuleGroupToReadableStringNoEarlyReturn(group, fields) ==
    LET result == ReadableFrom(group, 1, fields)
    IN IF GetNot(group) THEN <<"NOT (">> \o result \o <<")">> ELSE result

formatRuleGroupToReadableString(group, fields) ==
    IF Len(group.rules) = 0 THEN <<>>
    ELSE LET result == ReadableFrom(group, 1, fields)
         IN IF GetNot(group) THEN <<"NOT (">> \o result \o <<")">> ELSE result

\* formatSQLValue(value, field) for a value that is not null
formatSQLValue(value, field) ==
    IF IsStringValue(field) THEN <<"'", value, "'">> ELSE <<ToString(value)>>

formatRuleToSQL(rule, fields) ==
    LET field == FindField(fields, rule.field)
        fieldName == rule.field
        v == formatSQLValue(rule.value, field)
    IN CASE rule.operator = "equals" -> <<fieldName, " = ">> \o v
         [] rule.operator = "notEquals" -> <<fieldName, " != ">> \o v
         [] rule.operator = "contains" -> <<fieldName, " LIKE ", "'", "%", rule.value, "%", "'">>
         [] rule.operator = "isEmpty" -> <<"(", fieldName, " IS NULL OR ", fieldName, " = ''", ")">>
         [] rule.operator = "isNotEmpty" -> <<"(", fieldName, " IS NOT NULL AND ", fieldName, " != ''", ")">>
         [] rule.operator = ">" -> <<fieldName, " > ">> \o v
         [] rule.operator = "<" -> <<fieldName, " < ">> \o v
         [] OTHER -> <<fieldName, " = ">> \o v

RECURSIVE formatRuleGroupToSQL(_, _)
RECURSIVE SQLFrom(_, _, _)
\* The loop of formatRuleGroupToSQL from child i on: what it pushes, joined
SQLFrom(group, i, fields) ==
    IF i > Len(group.rules) THEN <<>>
    ELSE LET rule == group.rules[i]
             nestedSQL == formatRuleGroupToSQL(rule, fields)
             sqlPart == IF "rules" \in DOMAIN rule
                        THEN (IF nestedSQL # <<>> THEN <<"(">> \o nestedSQL \o <<")">> ELSE <<>>)
                        ELSE formatRuleToSQL(rule, fields)
             pushed == IF sqlPart # <<>>
                       THEN sqlPart \o (IF i < Len(group.rules)
                                        THEN <<" ", toUpperCase(CombinatorAfter(rule, group)), " ">>
                                        ELSE <<>>)
                       ELSE <<>>
         IN pushed \o SQLFrom(group, i + 1, fields)

\* Faulty variant of formatRuleGroupToSQL: group.not is ignored.
formatRuleGroupToSQLIgnoresNot(group, fields) ==
    IF Len(group.rules) = 0 THEN <<>> ELSE SQLFrom(group, 1, fields)

formatRuleGroupToSQL(group, fields) ==
    IF Len(group.rules) = 0 THEN <<>>
    ELSE LET result == SQLFrom(group, 1, fields)
         IN IF GetNot(group) THEN <<"NOT (">> \o result \o <<")">> ELSE result

\* A literal of a MongoDB query, with its JSON type
MongoValue(value, field) == IF IsStringValue(field) THEN [str |-> value] ELSE [num |-> value]

formatRuleToMongoDB(rule, fields) ==
    LET field == FindField(fields, rule.field)
        fieldName == rule.field
        v == MongoValue(rule.value, field)
    IN CASE rule.operator = "equals" -> (fieldName :> v)
         [] rule.operator = "notEquals" -> (fieldName :> ("$ne" :> v))
         [] rule.operator = "contains" -> (fieldName :> ("$regex" :> v @@ "$options" :> [str |-> "i"]))
         [] rule.operator = "isEmpty" ->
                ("$or" :> <<(fieldName :> [null |-> TRUE]), (fieldName :> [str |-> ""])>>)
         [] rule.operator = "isNotEmpty" ->
                ("$and" :> <<(fieldName :> ("$ne" :> [null |-> TRUE])), (fieldName :> ("$ne" :> [str |-> ""]))>>)
         [] rule.operator = ">" -> (fieldName :> ("$gt" :> v))
         [] rule.operator = "<" -> (fieldName :> ("$lt" :> v))
         [] OTHER -> (fieldName :> v)

\* {} and Object.keys(query).length
EmptyObject == [k \in {} |-> TRUE]
KeyCount(query) == Cardinality(DOMAIN query)

RECURSIVE formatRuleGroupToMongoDB(_, _)
RECURSIVE MongoFrom(_, _, _)
\* The loop of formatRuleGroupToMongoDB from child i on: mongoQueries and combinators
MongoFrom(group, i, fields) ==
    IF i > Len(group.rules) THEN [mongoQueries |-> <<>>, combinators |-> <<>>]
    ELSE LET rule == group.rules[i]
             query == IF "rules" \in DOMAIN rule THEN formatRuleGroupToMongoDB(rule, fields)
                      ELSE formatRuleToMongoDB(rule, fields)
             rest == MongoFrom(group, i + 1, fields)
         IN IF KeyCount(query) > 0
            THEN [mongoQueries |-> <<query>> \o rest.mongoQueries,
                  combinators |-> (IF i < Len(group.rules) THEN <<CombinatorAfter(rule, group)>> ELSE <<>>)
                                  \o rest.combinators]
            ELSE rest

formatRuleGroupToMongoDB(group, fields) ==
    IF Len(group.rules) = 0 THEN EmptyObject
    ELSE LET loop == MongoFrom(group, 1, fields)
             mongoQueries == loop.mongoQueries
             combinators == loop.combinators
             allSameCombinator == \A k \in 1..Len(combinators) : combinators[k] = combinators[1]
             result == IF Len(mongoQueries) = 1 THEN mongoQueries[1]
                       ELSE IF allSameCombinator
                            THEN ((IF combinators[1] = "and" THEN "$and" ELSE "$or") :> mongoQueries)
                            ELSE ((IF group.combinator = "and" THEN "$and" ELSE "$or") :> mongoQueries)
         IN IF Len(mongoQueries) = 0 THEN EmptyObject
            ELSE IF GetNot(group) THEN ("$not" :> result) ELSE result

\* canExportToFormat(group, format)
canExportToFormat(group, format) == IF Len(group.rules) = 0 THEN FALSE ELSE TRUE

\* The items the formatter inputs are built from (ids are assigned afterwards):
\* rules with and without a combinator of their own, empty groups, and nested
\* groups, plain and negated, with and without individualCombinator.
AgeRule == [id |-> MissingId, field |-> "age", operator |-> "equals", value |-> 0]

NameRule == [id |-> MissingId, field |-> "name", operator |-> "notEquals", value |-> "x", combinator |-> "or"]

EmptyGroup == [id |-> MissingId, combinator |-> "and", rules |-> <<>>]

FormatItems ==
    { AgeRule,
      AgeRule @@ [combinator |-> "and"],
      AgeRule @@ [combinator |-> "or"],
      NameRule,
      EmptyGroup,
      EmptyGroup @@ [not |-> TRUE, individualCombinator |-> "or"],
      [id |-> MissingId, combinator |-> "or", individualCombinator |-> "and",
       rules |-> <<AgeRule @@ [combinator |-> "and"], AgeRule>>],
      [id |-> MissingId, combinator |-> "and", not |-> TRUE, rules |-> <<NameRule, EmptyGroup>>],
      [id |-> MissingId, combinator |-> "or", rules |-> <<EmptyGroup>>] }

\* The groups handed to the formatters, with ids 1, 2, ... in document order
FormatInputs ==
    { cloneRuleGroup([id |-> MissingId, combinator |-> c, rules |-> rules] @@ negation, 1) :
        c \in {"and", "or"},
        negation \in {[k \in {} |-> TRUE], [not |-> TRUE], [not |-> FALSE]},
        rules \in UNION {[1..k -> FormatItems] : k \in 0..MaxChildren} }

Formats == {"sql", "mongodb", "readable"}

Formatted(output) ==
    /\ formatInput # Null
    /\ formatOutput' = output
    /\ UNCHANGED <<formatInput, histVars, editVars, auxVars>>

FormatReadable ==
    Formatted([format |-> "readable", result |-> formatRuleGroupToReadableString(formatInput, FormatFields)])

FormatSQL == Formatted([format |-> "sql", result |-> formatRuleGroupToSQL(formatInput, FormatFields)])

FormatMongoDB ==
    Formatted([format |-> "mongodb", result |-> formatRuleGroupToMongoDB(formatInput, FormatFields)])

CanExport ==
    \E format \in Formats :
        Formatted([format |-> format, canExport |-> canExportToFormat(formatInput, format)])

InitFormat ==
    /\ formatInput \in FormatInputs
    /\ formatOutput = Null
    /\ HistIdle
    /\ EditIdle
    /\ AuxIdle

NextFormat == FormatReadable \/ FormatSQL \/ FormatMongoDB \/ CanExport

SpecFormat == InitFormat /\ [][NextFormat]_vars

-----------------------------------------------------------------------------
(* Connectors, empty groups and negation in the formatted output *)

\* The groups of an item that have children
GroupsIn(item) == {g \in SubItems(item) : ~IsRule(g) /\ Len(g.rules) > 0}

\* A group with its `not` flag removed
Unnegated(group) == [k \in DOMAIN group \ {"not"} |-> group[k]]

TextOf(group, format) ==
    IF format = "readable" THEN formatRuleGroupToReadableString(group, FormatFields)
    ELSE formatRuleGroupToSQL(group, FormatFields)

\* What a child contributes to its parent's text: a rule its own text, a
\* nested group its text in parentheses, or nothing if that text is empty
Rendering(child, format) ==
    IF IsRule(child)
    THEN (IF format = "readable" THEN formatRuleToReadableString(child, FormatFields)
          ELSE formatRuleToSQL(child, FormatFields))
    ELSE (IF TextOf(child, format) = <<>> THEN <<>> ELSE <<"(">> \o TextOf(child, format) \o <<")">>)

\* The children of a group that render to a non-empty string, in order
RenderedChildren(group, format) ==
    LET Shown(child) == Rendering(child, format) # <<>> IN SelectSeq(group.rules, Shown)

\* The connector a child carries itself, if it carries one, else its parent's
EffectiveConnector(child, parent) ==
    IF IsRule(child)
    THEN (IF "combinator" \in DOMAIN child THEN child.combinator ELSE parent.combinator)
    ELSE (IF "individualCombinator" \in DOMAIN child THEN child.individualCombinator ELSE parent.combinator)

UpperCase(c) == IF c = "and" THEN "AND" ELSE "OR"

\* The rendered children joined by the effective connector of the left one
RECURSIVE Joined(_, _, _)
Joined(children, parent, format) ==
    IF children = <<>> THEN <<>>
    ELSE IF Len(children) = 1 THEN Rendering(children[1], format)
    ELSE Rendering(children[1], format)
         \o <<" ", UpperCase(EffectiveConnector(children[1], parent)), " ">>
         \o Joined(Tail(children), parent, format)

IsPrefix(p, s) == Len(p) <= Len(s) /\ SubSeq(s, 1, Len(p)) = p

\* C15: in the readable and SQL text of a group (before any NOT wrapper), each
\* rendered child is followed, up to the next rendered child, by exactly the
\* connector it carries itself if it carries one and by the group's combinator
\* otherwise: the text starts with the rendered children so joined.
C15_EffectiveConnector ==
    formatInput # Null =>
        \A g \in GroupsIn(formatInput), format \in {"readable", "sql"} :
            IsPrefix(Joined(RenderedChildren(g, format), g, format), TextOf(Unnegated(g), format))

\* The readable text of an "or" group whose first child carries "and" and
\* whose second child is rendered has been produced, with AND between them.
C15_Witness ==
    /\ formatInput # Null /\ formatOutput # Null
    /\ formatOutput.format = "readable" /\ "result" \in DOMAIN formatOutput
    /\ formatInput.combinator = "or" /\ ~GetNot(formatInput)
    /\ Len(formatInput.rules) >= 2
    /\ IsRule(formatInput.rules[1]) /\ IsRule(formatInput.rules[2])
    /\ "combinator" \in DOMAIN formatInput.rules[1] /\ formatInput.rules[1].combinator = "and"
    /\ IsPrefix(formatRuleToReadableString(formatInput.rules[1], FormatFields) \o <<" ", "AND", " ">>
                    \o formatRuleToReadableString(formatInput.rules[2], FormatFields),
                formatOutput.result)

\* The pieces a connector is written with
ConnectorText(c) == <<" ", UpperCase(c), " ">>

EndsWithConnector(text) ==
    Len(text) >= 3 /\ \E c \in {"and", "or"} : SubSeq(text, Len(text) - 2, Len(text)) = ConnectorText(c)

\* C16: the readable and SQL text of a group (before any NOT wrapper) is its
\* k rendered children separated by exactly k - 1 connectors, and it neither
\* begins nor ends with a connector, wherever empty nested groups stand among
\* the children.
C16_ConnectorsOnlyBetween ==
    formatInput # Null =>
        \A g \in GroupsIn(formatInput), format \in {"readable", "sql"} :
            LET text == TextOf(Unnegated(g), format)
            IN /\ text = Joined(RenderedChildren(g, format), g, format)
               /\ ~EndsWithConnector(text)
               /\ ~IsPrefix(<<" ">>, text)

\* The part of C16 that holds: the text never begins with a connector, and it
\* is exactly the joined rendered children whenever the last child is rendered.
C16_NoLeadingConnector ==
    formatInput # Null =>
        \A g \in GroupsIn(formatInput), format \in {"readable", "sql"} :
            LET text == TextOf(Unnegated(g), format)
            IN /\ ~IsPrefix(<<" ">>, text)
               /\ Rendering(g.rules[Len(g.rules)], format) # <<>> =>
                     text = Joined(RenderedChildren(g, format), g, format)

\* The children of a group whose MongoDB query is not {}
MongoQueryOf(child) ==
    IF IsRule(child) THEN formatRuleToMongoDB(child, FormatFields)
    ELSE formatRuleGroupToMongoDB(child, FormatFields)

MongoRendered(group) ==
    LET Shown(child) == KeyCount(MongoQueryOf(child)) > 0 IN SelectSeq(group.rules, Shown)

MongoOperator(c) == IF c = "and" THEN "$and" ELSE "$or"

\* The effective connectors between consecutive rendered children: that of
\* every rendered child but the last
ConnectorsBetween(children, parent) ==
    [k \in 1..(Len(children) - 1) |-> EffectiveConnector(children[k], parent)]

\* What C17 says of a group with two or more rendered children, `query` being
\* its MongoDB query before any $not wrapper
MongoEncoded(group, query) ==
    LET children == MongoRendered(group)
        queries == [k \in 1..Len(children) |-> MongoQueryOf(children[k])]
        connectors == ConnectorsBetween(children, group)
    IN IF \A k \in 1..Len(connectors) : connectors[k] = connectors[1]
       THEN query = (MongoOperator(connectors[1]) :> queries)
       ELSE query = (MongoOperator(group.combinator) :> queries)

\* C17: for a group with two or more rendered children, the MongoDB query is
\* the list of child queries under the operator of the connectors between
\* consecutive rendered children if these are all the same, and under the
\* operator of the group's own combinator if they are mixed.
C17_MongoConnectorEncoding ==
    formatInput # Null =>
        \A g \in GroupsIn(formatInput) :
            Len(MongoRendered(g)) >= 2 =>
                MongoEncoded(g, formatRuleGroupToMongoDB(Unnegated(g), FormatFields))

\* The part of C17 that holds: the same for groups whose last child is rendered.
C17_MongoEncodingLastRendered ==
    formatInput # Null =>
        \A g \in GroupsIn(formatInput) :
            (Len(MongoRendered(g)) >= 2 /\ KeyCount(MongoQueryOf(g.rules[Len(g.rules)])) > 0) =>
                MongoEncoded(g, formatRuleGroupToMongoDB(Unnegated(g), FormatFields))

\* The groups of an item that have no children
ChildlessGroupsIn(item) == {g \in SubItems(item) : ~IsRule(g) /\ Len(g.rules) = 0}

\* C18: a group with no children, negated or not, formats to "" as readable
\* text, to "" as SQL and to {} as a MongoDB query; and what the formatters
\* returned for a root without children is that empty value.
C18_EmptyGroupEmptyValue ==
    formatInput # Null =>
        /\ \A g \in ChildlessGroupsIn(formatInput) :
              /\ formatRuleGroupToReadableString(g, FormatFields) = <<>>
              /\ formatRuleGroupToSQL(g, FormatFields) = <<>>
              /\ formatRuleGroupToMongoDB(g, FormatFields) = EmptyObject
        /\ (Len(formatInput.rules) = 0 /\ formatOutput # Null /\ "result" \in DOMAIN formatOutput) =>
              formatOutput.result = (IF formatOutput.format = "mongodb" THEN EmptyObject ELSE <<>>)

\* A negated root without children has been formatted as readable text
C18_Witness ==
    /\ formatInput # Null /\ formatOutput # Null
    /\ Len(formatInput.rules) = 0 /\ GetNot(formatInput)
    /\ formatOutput.format = "readable" /\ "result" \in DOMAIN formatOutput
    /\ formatOutput.result = <<>>

\* countRules(group): the number of conditions anywhere in the tree
RECURSIVE countRulesFrom(_, _)
countRulesFrom(rules, i) ==
    IF i > Len(rules) THEN 0
    ELSE (IF "field" \in DOMAIN rules[i] THEN 1 ELSE countRulesFrom(rules[i].rules, 1))
         + countRulesFrom(rules, i + 1)

countRules(group) == countRulesFrom(group.rules, 1)

\* C19: canExportToFormat is false for a tree with no condition anywhere, a
\* root whose only descendants are empty groups included, and true for a tree
\* with at least one condition, for every format.
C19_CanExportIffCondition ==
    formatInput # Null =>
        /\ \A format \in Formats :
              canExportToFormat(formatInput, format) = (countRules(formatInput) > 0)
        /\ (formatOutput # Null /\ "canExport" \in DOMAIN formatOutput) =>
              formatOutput.canExport = (countRules(formatInput) > 0)

\* The part of C19 that holds: false for a root without children, true for a
\* tree with at least one condition.
C19_CanExportEmptyRootOrCondition ==
    formatInput # Null =>
        \A format \in Formats :
            /\ Len(formatInput.rules) = 0 => ~canExportToFormat(formatInput, format)
            /\ countRules(formatInput) > 0 => canExportToFormat(formatInput, format)

\* The conditions of an item
RulesIn(item) == {r \in SubItems(item) : IsRule(r)}

Contains(s, piece) == \E k \in 1..Len(s) : s[k] = piece

\* C20: for a group with at least one condition, `not` makes the readable and
\* the SQL text "NOT (" + the un-negated text + ")" and the MongoDB query
\* {$not: the un-negated query}; without `not` the output is the un-negated
\* one and does not open with "NOT ("; and the output of a single condition
\* carries no negation of its own.
C20_NegationWrapsGroup ==
    formatInput # Null =>
        /\ \A g \in GroupsIn(formatInput) :
              countRules(g) > 0 =>
                  /\ \A format \in {"readable", "sql"} :
                        IF GetNot(g)
                        THEN TextOf(g, format) = <<"NOT (">> \o TextOf(Unnegated(g), format) \o <<")">>
                        ELSE /\ TextOf(g, format) = TextOf(Unnegated(g), format)
                             /\ ~IsPrefix(<<"NOT (">>, TextOf(g, format))
                  /\ formatRuleGroupToMongoDB(g, FormatFields)
                        = IF GetNot(g)
                          THEN ("$not" :> formatRuleGroupToMongoDB(Unnegated(g), FormatFields))
                          ELSE formatRuleGroupToMongoDB(Unnegated(g), FormatFields)
        /\ \A r \in RulesIn(formatInput) :
              /\ ~Contains(formatRuleToReadableString(r, FormatFields), "NOT (")
              /\ ~Contains(formatRuleToSQL(r, FormatFields), "NOT (")
              /\ "$not" \notin DOMAIN formatRuleToMongoDB(r, FormatFields)

\* A negated root with two conditions has been formatted as SQL, and the text
\* is the wrapper around both
C20_Witness ==
    /\ formatInput # Null /\ formatOutput # Null
    /\ GetNot(formatInput) /\ Len(formatInput.rules) = 2
    /\ IsRule(formatInput.rules[1]) /\ IsRule(formatInput.rules[2])
    /\ formatOutput.format = "sql" /\ "result" \in DOMAIN formatOutput
    /\ formatOutput.result = <<"NOT (">> \o formatRuleGroupToSQL(Unnegated(formatInput), FormatFields) \o <<")">>

-----------------------------------------------------------------------------
(* The cursor of the history log *)

\* C28: in every state the reducer reaches, 0 <= historyIndex < history.length
\* and the current tree is history[historyIndex]; canUndo holds exactly when
\* historyIndex > 0, which is exactly when UNDO moves the cursor, and canRedo
\* exactly when historyIndex < history.length - 1, which is exactly when REDO
\* moves it.
C28_CursorConsistent ==
    state # Null =>
        /\ 0 <= state.historyIndex /\ state.historyIndex < Len(state.history)
        /\ state.rule = state.history[state.historyIndex + 1]
        /\ canUndo(state) <=> state.historyIndex > 0
        /\ canRedo(state) <=> state.historyIndex < Len(state.history) - 1
        /\ canUndo(state) <=> ruleBuilderReducer(state, [type |-> "UNDO"]) # state
        /\ canRedo(state) <=> ruleBuilderReducer(state, [type |-> "REDO"]) # state

\* The cursor stands inside the log, on a tree other than its neighbours:
\* both undo and redo are possible
C28_Witness ==
    /\ state # Null
    /\ Len(state.history) >= 3
    /\ state.historyIndex = 1
    /\ canUndo(state) /\ canRedo(state)
    /\ state.rule = state.history[2]
    /\ state.history[1] # state.history[2] /\ state.history[3] # state.history[2]

-----------------------------------------------------------------------------
(* Node conservation under move *)

\* The tree `after` holds exactly the node ids of t, each exactly once in both
SameNodes(t, after) ==
    LET before == IdSeq(t)
        now == IdSeq(after)
        Count(s, id) == Cardinality({i \in 1..Len(s) : s[i] = id})
    IN \A id \in {before[i] : i \in 1..Len(before)} \cup {now[i] : i \in 1..Len(now)} :
           Count(now, id) = 1 /\ Count(before, id) = 1

\* C29: for every tree with distinct ids and every itemId, targetGroupId and
\* targetIndex (a target that names no group, names a rule or names the moved
\* node itself, and an index out of range included), the tree moveItem returns
\* holds exactly the node ids of the input tree, each exactly once.
C29_MoveConservesNodes ==
    (tree # Null /\ UniqueIds(tree)) =>
        \A item \in IdInputs(tree), target \in IdInputs(tree), targetIndex \in IndexInputs(tree) :
            SameNodes(tree, moveItem(tree, item, target, targetIndex))

\* The part of C29 that holds: nodes are conserved when the item is not found,
\* or when the target names a group outside the moved node.
C29_MoveConservesWhenTargetOutside ==
    (tree # Null /\ UniqueIds(tree)) =>
        \A item \in IdInputs(tree), target \in IdInputs(tree), targetIndex \in IndexInputs(tree) :
            (\/ item \notin Ids(tree) \ {tree.id}
             \/ target \in GroupIds(tree) \ ItemIds(NodeOf(tree, item))) =>
                SameNodes(tree, moveItem(tree, item, target, targetIndex))

-----------------------------------------------------------------------------
(* Trees without conditions *)

\* C30: a tree with no condition at any depth, whatever its nesting of empty
\* groups and whichever of them are negated, formats to "" as readable text,
\* to "" as SQL and to {} as a MongoDB query.
C30_ConditionFreeCompilesToNothing ==
    formatInput # Null =>
        \A g \in SubItems(formatInput) :
            (~IsRule(g) /\ countRules(g) = 0) =>
                /\ formatRuleGroupToReadableString(g, FormatFields) = <<>>
                /\ formatRuleGroupToSQL(g, FormatFields) = <<>>
                /\ formatRuleGroupToMongoDB(g, FormatFields) = EmptyObject

\* The part of C30 that holds: the MongoDB query of a condition-free tree is
\* {}, and its text is "" when none of its groups that have children is negated.
C30_ConditionFreeUnnegated ==
    formatInput # Null =>
        \A g \in SubItems(formatInput) :
            (~IsRule(g) /\ countRules(g) = 0) =>
                /\ formatRuleGroupToMongoDB(g, FormatFields) = EmptyObject
                /\ (\A h \in GroupsIn(g) : ~GetNot(h)) =>
                      /\ formatRuleGroupToReadableString(g, FormatFields) = <<>>
                      /\ formatRuleGroupToSQL(g, FormatFields) = <<>>

-----------------------------------------------------------------------------
(* Validation: validateRule, validateFieldValue, validateWithRules,        *)
(* validateRuleGroup, validateRuleStructure and checkLogicalConsistency,   *)
(* and the validation memo of useRuleBuilder.                              *)
(*                                                                         *)
(* A value handed to the validators carries its JavaScript type:           *)
(* [num |-> 5], [str |-> <<"a", "b">>] (a string is the sequence of its    *)
(* characters, '' the empty one), [bool |-> TRUE]; Null is null.  A        *)
(* finding is a ValidationError record; its id, message and path are       *)
(* sequences of pieces, ids and indexes written with toString.             *)

\* typeof value
TypeOf(value) ==
    CASE "num" \in DOMAIN value -> "number"
      [] "str" \in DOMAIN value -> "string"
      [] "bool" \in DOMAIN value -> "boolean"
      [] OTHER -> "object"

\* value === null || value === undefined || value === ''
IsBlank(value) == value = Null \/ value = [str |-> <<>>]

\* array.includes(x)
Includes(s, x) == \E k \in 1..Len(s) : s[k] = x

Digits == <<"0", "1", "2", "3", "4", "5", "6", "7", "8", "9">>

DigitValue(c) == (CHOOSE k \in 1..Len(Digits) : Digits[k] = c) - 1

RECURSIVE ParseDigits(_, _)
ParseDigits(chars, sofar) ==
    IF chars = <<>> THEN sofar ELSE ParseDigits(Tail(chars), 10 * sofar + DigitValue(Head(chars)))

\* isNaN(Number(value)): a string that is not a decimal numeral
IsNaNNumber(value) ==
    /\ "str" \in DOMAIN value
    /\ \E k \in 1..Len(value.str) : ~Includes(Digits, value.str[k])

\* Number(value), for a value whose number is not NaN
Number(value) ==
    CASE "num" \in DOMAIN value -> value.num
      [] "bool" \in DOMAIN value -> (IF value.bool THEN 1 ELSE 0)
      [] "str" \in DOMAIN value -> ParseDigits(value.str, 0)
      [] OTHER -> 0

\* `${value}`
ValueText(value) ==
    CASE "num" \in DOMAIN value -> <<ToString(value.num)>>
      [] "str" \in DOMAIN value -> value.str
      [] "bool" \in DOMAIN value -> <<IF value.bool THEN "true" ELSE "false">>
      [] OTHER -> <<"null">>

\* array.join(separator)
RECURSIVE Join(_, _)
Join(s, separator) ==
    IF s = <<>> THEN <<>>
    ELSE IF Len(s) = 1 THEN <<s[1]>>
    ELSE <<s[1], separator>> \o Join(Tail(s), separator)

\* validateWithRules(value, validation, ruleId).  A pattern is the set of the
\* strings it matches; a custom validator is the set of the values it accepts
\* and the message it returns for the others, if it returns one.
validateWithRules(value, validation, ruleId) ==
    LET Finding(suffix, message) ==
            [id |-> <<ruleId, suffix>>, type |-> "field", severity |-> "error",
             message |-> message, path |-> <<ruleId, "value">>]
        required ==
            IF "required" \in DOMAIN validation /\ validation.required /\ IsBlank(value)
            THEN <<Finding("-required", <<"This field is required">>)>> ELSE <<>>
        min ==
            IF "min" \in DOMAIN validation
            THEN IF TypeOf(value) = "number" /\ value.num < validation.min
                 THEN <<Finding("-min", <<"Value must be at least ", ToString(validation.min)>>)>>
                 ELSE IF TypeOf(value) = "string" /\ Len(value.str) < validation.min
                 THEN <<Finding("-min-length",
                                <<"Value must be at least ", ToString(validation.min), " characters">>)>>
                 ELSE <<>>
            ELSE <<>>
        max ==
            IF "max" \in DOMAIN validation
            THEN IF TypeOf(value) = "number" /\ value.num > validation.max
                 THEN <<Finding("-max", <<"Value must be at most ", ToString(validation.max)>>)>>
                 ELSE IF TypeOf(value) = "string" /\ Len(value.str) > validation.max
                 THEN <<Finding("-max-length",
                                <<"Value must be at most ", ToString(validation.max), " characters">>)>>
                 ELSE <<>>
            ELSE <<>>
        pattern ==
            IF "pattern" \in DOMAIN validation /\ TypeOf(value) = "string"
               /\ value.str \notin validation.pattern
            THEN <<Finding("-pattern", <<"Value does not match the required format">>)>> ELSE <<>>
        custom ==
            IF "custom" \in DOMAIN validation /\ value \notin validation.custom.accepts
            THEN <<Finding("-custom", IF "message" \in DOMAIN validation.custom
                                      THEN validation.custom.message
                                      ELSE <<"Value is invalid">>)>>
            ELSE <<>>
    IN required \o min \o max \o pattern \o custom

\* new Date(value) is a valid date: the strings listed here, numbers and booleans
DateStrings == {<<"2", "0", "2", "4">>}

IsValidDate(value) ==
    CASE "str" \in DOMAIN value -> value.str \in DateStrings
      [] OTHER -> TRUE

\* validateFieldValue(value, field, ruleId)
validateFieldValue(value, field, ruleId) ==
    LET TypeFinding(message) ==
            <<[id |-> <<ruleId, "-value-type">>, type |-> "field", severity |-> "error",
               message |-> <<message>>, path |-> <<ruleId, "value">>]>>
        typeErrors ==
            CASE field.type = "string" ->
                    IF TypeOf(value) # "string" THEN TypeFinding("Value must be a string") ELSE <<>>
              [] field.type = "number" ->
                    IF IsNaNNumber(value) THEN TypeFinding("Value must be a valid number") ELSE <<>>
              [] field.type = "date" ->
                    IF ~IsValidDate(value) THEN TypeFinding("Value must be a valid date") ELSE <<>>
              [] field.type = "boolean" ->
                    IF TypeOf(value) # "boolean" THEN TypeFinding("Value must be true or false") ELSE <<>>
              [] field.type = "select" ->
                    IF "options" \in DOMAIN field
                       /\ ~\E k \in 1..Len(field.options) : field.options[k].value = value
                    THEN <<[id |-> <<ruleId, "-value-option">>, type |-> "field", severity |-> "error",
                            message |-> <<"Value must be one of the available options">>,
                            path |-> <<ruleId, "value">>,
                            suggestions |->
                                LET quoted == [k \in 1..Len(field.options) |->
                                                  <<"\"", field.options[k].label, "\"">>]
                                IN SubSeq(quoted, 1, IF Len(quoted) < 3 THEN Len(quoted) ELSE 3)]>>
                    ELSE <<>>
              [] OTHER -> <<>>
    IN typeErrors \o (IF "validation" \in DOMAIN field
                      THEN validateWithRules(value, field.validation, ruleId) ELSE <<>>)

operatorsWithoutValue == <<"isEmpty", "isNotEmpty", "isTrue", "isFalse">>

\* validateRule(rule, fields)
validateRule(rule, fields) ==
    LET field == FindField(fields, rule.field)
        ruleId == ToString(rule.id)
        validOperators == IF "operators" \in DOMAIN field THEN field.operators ELSE <<>>
        operatorErrors ==
            IF Len(validOperators) > 0 /\ ~Includes(validOperators, rule.operator)
            THEN <<[id |-> <<ruleId, "-operator">>, type |-> "rule", severity |-> "error",
                    message |-> <<"Operator \"", rule.operator, "\" is not valid for field type \"",
                                  field.type, "\"">>,
                    path |-> <<ruleId, "operator">>,
                    suggestions |-> <<<<"Valid operators: ">> \o Join(validOperators, ", ")>>]>>
            ELSE <<>>
        requiredErrors ==
            IF ~Includes(operatorsWithoutValue, rule.operator) /\ IsBlank(rule.value)
            THEN <<[id |-> <<ruleId, "-value">>, type |-> "rule", severity |-> "error",
                    message |-> <<"Value is required for this operator">>,
                    path |-> <<ruleId, "value">>,
                    suggestions |-> <<<<"Enter a value for this condition">>>>]>>
            ELSE <<>>
        valueErrors ==
            IF ~IsBlank(rule.value) THEN validateFieldValue(rule.value, field, ruleId) ELSE <<>>
    IN IF field = Null
       THEN <<[id |-> <<ruleId, "-field">>, type |-> "rule", severity |-> "error",
               message |-> <<"Field \"", rule.field, "\" does not exist">>,
               path |-> <<ruleId, "field">>,
               suggestions |-> <<<<"Select a valid field from the dropdown">>>>]>>
       ELSE operatorErrors \o requiredErrors \o valueErrors

\* validateRuleGroup(group, fields, path)
RECURSIVE validateRuleGroup(_, _, _)
RECURSIVE ValidateItemsFrom(_, _, _, _)
\* group.rules.forEach((item, index) => ...) from the child at index on
ValidateItemsFrom(group, fields, currentPath, index) ==
    IF index >= Len(group.rules) THEN <<>>
    ELSE LET item == group.rules[index + 1]
             ruleErrors == validateRule(item, fields)
             found ==
                 IF "field" \in DOMAIN item
                 THEN [k \in 1..Len(ruleErrors) |->
                          [ruleErrors[k] EXCEPT
                              !.path = currentPath \o <<"rules", ToString(index)>> \o Tail(@)]]
                 ELSE validateRuleGroup(item, fields, currentPath \o <<"rules", ToString(index)>>)
         IN found \o ValidateItemsFrom(group, fields, currentPath, index + 1)

validateRuleGroup(group, fields, path) ==
    LET currentPath == path \o <<ToString(group.id)>>
        empty ==
            IF Len(group.rules) = 0
            THEN <<[id |-> <<ToString(group.id), "-empty">>, type |-> "group", severity |-> "warning",
                    message |-> <<"Rule group is empty">>,
                    path |-> currentPath,
                    suggestions |-> <<<<"Add at least one rule or condition to this group">>>>]>>
            ELSE <<>>
    IN empty \o ValidateItemsFrom(group, fields, currentPath, 0)

\* errors.filter(error => error.severity === 'error')
CriticalErrors(errors) == LET Critical(e) == e.severity = "error" IN SelectSeq(errors, Critical)

\* Faulty variant of validateRuleStructure: every finding counts, warnings too.
validateRuleStructureCountsWarnings(rule, fields) ==
    LET errors == validateRuleGroup(rule, fields, <<>>)
    IN [isValid |-> Len(errors) = 0, errors |-> errors]

\* validateRuleStructure(rule, fields)
validateRuleStructure(rule, fields) ==
    LET errors == validateRuleGroup(rule, fields, <<>>)
        criticalErrors == CriticalErrors(errors)
    IN [isValid |-> Len(criticalErrors) = 0, errors |-> errors]

\* The fields of the rules among items, in the order of their first appearance
RECURSIVE FieldNamesIn(_, _)
FieldNamesIn(items, seen) ==
    IF items = <<>> THEN seen
    ELSE FieldNamesIn(Tail(items),
                      IF "field" \in DOMAIN Head(items) /\ ~Includes(seen, Head(items).field)
                      THEN Append(seen, Head(items).field) ELSE seen)

\* Number(gtRule.value) >= Number(ltRule.value), false when either is NaN
NumberAtLeast(a, b) == ~IsNaNNumber(a) /\ ~IsNaNNumber(b) /\ Number(a) >= Number(b)

\* gtRules.forEach(gtRule => ltRules.forEach(ltRule => ...)) from pair (i, j) on
RECURSIVE ContradictionsFrom(_, _, _, _, _, _, _)
ContradictionsFrom(gtRules, ltRules, i, j, fieldName, currentGroup, path) ==
    IF i > Len(gtRules) THEN <<>>
    ELSE IF j > Len(ltRules)
    THEN ContradictionsFrom(gtRules, ltRules, i + 1, 1, fieldName, currentGroup, path)
    ELSE (IF NumberAtLeast(gtRules[i].value, ltRules[j].value)
          THEN <<[id |-> <<ToString(currentGroup.id), "-contradiction">>,
                  type |-> "group", severity |-> "warning",
                  message |-> <<"Contradictory conditions: ", fieldName, " > ">>
                              \o ValueText(gtRules[i].value)
                              \o <<" AND ", fieldName, " < ">> \o ValueText(ltRules[j].value),
                  path |-> path \o <<ToString(currentGroup.id)>>,
                  suggestions |-> <<<<"Review the conditions for logical consistency">>>>]>>
          ELSE <<>>)
         \o ContradictionsFrom(gtRules, ltRules, i, j + 1, fieldName, currentGroup, path)

\* sameFieldRules.forEach((rules, fieldName) => ...) from the k-th field on
RECURSIVE SameFieldFrom(_, _, _, _, _)
SameFieldFrom(currentGroup, fieldNames, k, fields, path) ==
    IF k > Len(fieldNames) THEN <<>>
    ELSE LET fieldName == fieldNames[k]
             OnField(item) == "field" \in DOMAIN item /\ item.field = fieldName
             rules == SelectSeq(currentGroup.rules, OnField)
             field == FindField(fields, fieldName)
             IsGt(r) == r.operator = ">"
             IsLt(r) == r.operator = "<"
             found == IF Len(rules) > 1 /\ field # Null /\ field.type = "number"
                      THEN ContradictionsFrom(SelectSeq(rules, IsGt), SelectSeq(rules, IsLt), 1, 1,
                                              fieldName, currentGroup, path)
                      ELSE <<>>
         IN found \o SameFieldFrom(currentGroup, fieldNames, k + 1, fields, path)

\* checkLogicalConsistency's inner checkContradictions(currentGroup, path):
\* the findings it pushes, in order
RECURSIVE checkContradictions(_, _, _)
RECURSIVE NestedContradictionsFrom(_, _, _, _)
NestedContradictionsFrom(currentGroup, fields, path, index) ==
    IF index >= Len(currentGroup.rules) THEN <<>>
    ELSE (IF "field" \notin DOMAIN currentGroup.rules[index + 1]
          THEN checkContradictions(currentGroup.rules[index + 1], fields,
                                   path \o <<ToString(currentGroup.id), "rules", ToString(index)>>)
          ELSE <<>>)
         \o NestedContradictionsFrom(currentGroup, fields, path, index + 1)

checkContradictions(currentGroup, fields, path) ==
    (IF currentGroup.combinator = "and"
     THEN SameFieldFrom(currentGroup, FieldNamesIn(currentGroup.rules, <<>>), 1, fields, path)
     ELSE <<>>)
    \o NestedContradictionsFrom(currentGroup, fields, path, 0)

\* checkLogicalConsistency(group, fields)
checkLogicalConsistency(group, fields) == checkContradictions(group, fields, <<>>)

\* The validation memo of useRuleBuilder
HookValidation(rule, fields) ==
    LET structureValidation == validateRuleStructure(rule, fields)
        consistencyErrors == checkLogicalConsistency(rule, fields)
    IN [isValid |-> structureValidation.isValid,
        errors |-> structureValidation.errors \o consistencyErrors]

\* DEFAULT_OPERATORS of types/index.ts
DEFAULT_OPERATORS ==
    [string |-> <<"equals", "notEquals", "contains", "startsWith", "endsWith", "isEmpty", "isNotEmpty">>,
     number |-> <<"equals", "notEquals", ">", ">=", "<", "<=", "between", "notBetween">>,
     date |-> <<"equals", "notEquals", "before", "after", "between", "notBetween">>,
     boolean |-> <<"equals", "isTrue", "isFalse">>,
     select |-> <<"equals", "notEquals", "in", "notIn">>]

-----------------------------------------------------------------------------
(* The validators applied to bounded trees and catalogs *)

\* The field catalogs: in the first the number field omits its operator list
\* and the string field lists its operators and has validation rules; in the
\* second it is the other way round.
ValCatalogs ==
    { << [name |-> "age", label |-> "Age", type |-> "number"],
         [name |-> "name", label |-> "Name", type |-> "string",
          operators |-> <<"equals", "contains">>,
          validation |-> [required |-> TRUE, min |-> 2]] >>,
      << [name |-> "age", label |-> "Age", type |-> "number",
          operators |-> <<">", "<", "equals">>, validation |-> [max |-> 5]],
         [name |-> "name", label |-> "Name", type |-> "string"] >> }

GtRule(a) == [id |-> MissingId, field |-> "age", operator |-> ">", value |-> [num |-> a]]

LtRule(b) == [id |-> MissingId, field |-> "age", operator |-> "<", value |-> [num |-> b]]

\* The items the validator inputs are built from (ids are assigned afterwards)
ValItems ==
    { GtRule(10) @@ [combinator |-> "or"],
      GtRule(1),
      LtRule(5),
      LtRule(5) @@ [combinator |-> "and"],
      [id |-> MissingId, field |-> "age", operator |-> "contains", value |-> [num |-> 1]],
      [id |-> MissingId, field |-> "name", operator |-> "equals", value |-> [str |-> <<>>]],
      [id |-> MissingId, field |-> "zip", operator |-> "equals", value |-> [str |-> <<"x">>]],
      EmptyGroup,
      [id |-> MissingId, combinator |-> "and", rules |-> <<GtRule(10), LtRule(5)>>] }

\* The trees handed to the validators, with ids 1, 2, ... in document order
ValInputs ==
    { [rule |-> cloneRuleGroup([id |-> MissingId, combinator |-> c, rules |-> rules], 1),
       fields |-> fields] :
        c \in {"and", "or"},
        rules \in UNION {[1..k -> ValItems] : k \in 0..MaxChildren},
        fields \in ValCatalogs }

Validated(output) ==
    /\ valInput # Null
    /\ valOutput' = output
    /\ UNCHANGED <<valInput, histVars, editVars, fmtVars, apiVars, storeVars>>

ValidateStructure ==
    Validated([call |-> "validateRuleStructure",
               result |-> validateRuleStructure(valInput.rule, valInput.fields)])

CheckConsistency ==
    Validated([call |-> "checkLogicalConsistency",
               result |-> checkLogicalConsistency(valInput.rule, valInput.fields)])

UseRuleBuilderValidation ==
    Validated([call |-> "useRuleBuilder",
               result |-> HookValidation(valInput.rule, valInput.fields)])

InitValidate ==
    /\ valInput \in ValInputs
    /\ valOutput = Null
    /\ HistIdle
    /\ EditIdle
    /\ FmtIdle
    /\ ApiIdle
    /\ StoreIdle

NextValidate == ValidateStructure \/ CheckConsistency \/ UseRuleBuilderValidation

SpecValidate == InitValidate /\ [][NextValidate]_vars

-----------------------------------------------------------------------------
(* Validity, operator compatibility and contradictions *)

HasError(errors) == \E k \in 1..Len(errors) : errors[k].severity = "error"

\* C21: the isValid flag validateRuleStructure and useRuleBuilder report is
\* true exactly when the findings reported with it hold no finding of
\* severity `error`; warnings (empty groups, contradictions) leave a tree valid.
C21_ValidIffNoError ==
    valInput # Null =>
        /\ LET structure == validateRuleStructure(valInput.rule, valInput.fields)
               hook == HookValidation(valInput.rule, valInput.fields)
           IN /\ structure.isValid <=> ~HasError(structure.errors)
              /\ hook.isValid <=> ~HasError(hook.errors)
        /\ (valOutput # Null /\ valOutput.call \in {"validateRuleStructure", "useRuleBuilder"}) =>
              (valOutput.result.isValid <=> ~HasError(valOutput.result.errors))

\* useRuleBuilder has reported a tree valid together with warnings only: an
\* empty group and a contradiction
C21_Witness ==
    /\ valInput # Null /\ valOutput # Null
    /\ valOutput.call = "useRuleBuilder"
    /\ valOutput.result.isValid
    /\ \E k \in 1..Len(valOutput.result.errors) :
          valOutput.result.errors[k].id[2] = "-empty"
    /\ \E k \in 1..Len(valOutput.result.errors) :
          valOutput.result.errors[k].id[2] = "-contradiction"

\* validateRule reports an operator error for the rule
HasOperatorError(rule, fields) ==
    \E k \in 1..Len(validateRule(rule, fields)) :
        /\ validateRule(rule, fields)[k].id = <<ToString(rule.id), "-operator">>
        /\ validateRule(rule, fields)[k].severity = "error"

\* C22: for a condition on a field of the catalog that omits its operator
\* list, the validator reports an operator error exactly when the operator is
\* outside the default set of the field's type.
C22_DefaultOperatorSet ==
    valInput # Null =>
        \A rule \in RulesIn(valInput.rule) :
            LET field == FindField(valInput.fields, rule.field)
            IN (field # Null /\ "operators" \notin DOMAIN field) =>
                  (HasOperatorError(rule, valInput.fields)
                      <=> ~Includes(DEFAULT_OPERATORS[field.type], rule.operator))

\* What holds instead: an operator is checked against the field's own list,
\* and never when the field omits it.
C22_OwnOperatorListOnly ==
    valInput # Null =>
        \A rule \in RulesIn(valInput.rule) :
            LET field == FindField(valInput.fields, rule.field)
            IN field # Null =>
                  (HasOperatorError(rule, valInput.fields)
                      <=> ("operators" \in DOMAIN field /\ ~Includes(field.operators, rule.operator)))

\* A pair of conditions f > a and f < b on one number field with a >= b
MutuallyExclusive(gt, lt, fields) ==
    /\ IsRule(gt) /\ IsRule(lt)
    /\ gt.field = lt.field
    /\ FindField(fields, gt.field) # Null /\ FindField(fields, gt.field).type = "number"
    /\ gt.operator = ">" /\ lt.operator = "<"
    /\ NumberAtLeast(gt.value, lt.value)

\* checkLogicalConsistency on the whole tree reports the pair as a
\* contradiction of the group
ContradictionReported(root, fields, group, gt, lt) ==
    \E k \in 1..Len(checkLogicalConsistency(root, fields)) :
        LET finding == checkLogicalConsistency(root, fields)[k]
        IN /\ finding.id = <<ToString(group.id), "-contradiction">>
           /\ finding.severity = "warning"
           /\ finding.message = <<"Contradictory conditions: ", gt.field, " > ">> \o ValueText(gt.value)
                                \o <<" AND ", gt.field, " < ">> \o ValueText(lt.value)

\* The adjacent pairs of children of the groups of a tree that are mutually
\* exclusive, with the group and the left sibling
ExclusivePairs(root, fields) ==
    UNION { UNION { (IF MutuallyExclusive(g.rules[i], g.rules[i + 1], fields)
                     THEN {[group |-> g, left |-> g.rules[i], gt |-> g.rules[i], lt |-> g.rules[i + 1]]}
                     ELSE {})
                    \cup
                    (IF MutuallyExclusive(g.rules[i + 1], g.rules[i], fields)
                     THEN {[group |-> g, left |-> g.rules[i], gt |-> g.rules[i + 1], lt |-> g.rules[i]]}
                     ELSE {}) : i \in 1..(Len(g.rules) - 1) } : g \in GroupsIn(root) }

\* C23: for two adjacent conditions f > a and f < b (a >= b) on one number
\* field of a group, a contradiction warning is reported exactly when the
\* effective connector between them (the left sibling's own connector if it
\* has one, else the group's combinator) is AND.
C23_ContradictionFollowsConnector ==
    valInput # Null =>
        \A p \in ExclusivePairs(valInput.rule, valInput.fields) :
            ContradictionReported(valInput.rule, valInput.fields, p.group, p.gt, p.lt)
                <=> EffectiveConnector(p.left, p.group) = "and"

\* What holds instead: the warning follows the group's combinator alone; and
\* so the claim holds for pairs whose left sibling has no connector of its own.
C23_ContradictionFollowsGroupCombinator ==
    valInput # Null =>
        \A p \in ExclusivePairs(valInput.rule, valInput.fields) :
            /\ ContradictionReported(valInput.rule, valInput.fields, p.group, p.gt, p.lt)
                  <=> p.group.combinator = "and"
            /\ "combinator" \notin DOMAIN p.left =>
                  (ContradictionReported(valInput.rule, valInput.fields, p.group, p.gt, p.lt)
                      <=> EffectiveConnector(p.left, p.group) = "and")

-----------------------------------------------------------------------------
(* Field values from an API: useApiFieldValues.ts                          *)
(*                                                                         *)
(* `api` holds one hook instance: its state (useState), localSearchQuery,  *)
(* the two refs, the module-level cache entry of its cacheKey, the fetch   *)
(* promises not yet settled, the timers not yet fired or cleared, the      *)
(* number of fetchData calls so far and the clock in milliseconds.  An     *)
(* aborted fetch rejects with AbortError and its continuation returns      *)
(* without touching anything, so aborting a request removes it from        *)
(* `requests`.  Timers fire as soon as they are due.                       *)

\* The delay of the search debounce, in milliseconds
SEARCH_DEBOUNCE == 300
\* The clock advances in steps of TickMs up to MaxTime
TickMs == 100
MaxTime == 600
\* fetchData calls in one behaviour
MaxCalls == 3

ApiConfig ==
    [endpoint |-> "https://api.example.com/options",
     cacheDuration |-> 1000,
     pagination |-> [enabled |-> TRUE, pageSize |-> 1]]

OptionA == [value |-> "a", label |-> "A"]
OptionB == [value |-> "b", label |-> "B"]

\* What the server can answer: an array of well-formed options with or
\* without a total (0 for none), or an HTTP error
Responses ==
    { [ok |-> TRUE, options |-> <<>>, total |-> 0],
      [ok |-> TRUE, options |-> <<OptionA>>, total |-> 0],
      [ok |-> TRUE, options |-> <<OptionB>>, total |-> 0],
      [ok |-> TRUE, options |-> <<OptionA>>, total |-> 2],
      [ok |-> FALSE, status |-> "500"] }

\* The queries typed into the search box; "" clears the search
Queries == {"", "a", "ap"}

InitialApiState ==
    [options |-> <<>>, loading |-> FALSE, error |-> Null, hasMore |-> FALSE, currentPage |-> 1]

\* cached && Date.now() - cached.timestamp < cacheDuration
CacheIsFresh(a) == a.cache # Null /\ a.now - a.cache.timestamp < a.config.cacheDuration

\* abortControllerRef.current.abort(): the request of that controller, if
\* still in flight, settles with AbortError
Abort(requests, controller) == {r \in requests : r.id # controller}

\* fetchData(page, append, search) up to the await of fetch: search is
\* [query |-> q] for the string q and Null when undefined; the call is the
\* (calls + 1)-th of the hook
fetchData(a, page, append, search) ==
    IF a.config = Null THEN a
    ELSE IF search = Null /\ CacheIsFresh(a) /\ page = 1 /\ ~append
    THEN [a EXCEPT !.state = [@ EXCEPT !.options = a.cache.data, !.loading = FALSE,
                                       !.error = Null, !.hasMore = a.cache.hasMore],
                   !.calls = @ + 1]
    ELSE [a EXCEPT !.requests = Abort(@, a.controller)
                                \cup {[id |-> a.calls + 1, page |-> page,
                                       append |-> append, search |-> search]},
                   !.controller = a.calls + 1,
                   !.state = [@ EXCEPT !.loading = TRUE, !.error = Null],
                   !.calls = @ + 1]

\* hasMore as fetchData computes it from the response
HasMoreOf(config, page, response) ==
    IF "pagination" \in DOMAIN config /\ config.pagination.enabled
    THEN IF response.total # 0 THEN page * config.pagination.pageSize < response.total
         ELSE Len(response.options) = config.pagination.pageSize
    ELSE FALSE

\* fetchData from the await of fetch on, for the request r and its response
fetchDataResume(a, r, response) ==
    IF response.ok
    THEN LET hasMore == HasMoreOf(a.config, r.page, response)
         IN [a EXCEPT !.state = [@ EXCEPT !.options = IF r.append THEN @ \o response.options
                                                       ELSE response.options,
                                          !.loading = FALSE, !.error = Null,
                                          !.hasMore = hasMore, !.currentPage = r.page],
                      !.cache = IF r.page = 1 /\ ~r.append /\ r.search = Null
                                THEN [data |-> response.options, timestamp |-> a.now, hasMore |-> hasMore]
                                ELSE @,
                      !.requests = @ \ {r}]
    ELSE [a EXCEPT !.state = [@ EXCEPT !.loading = FALSE,
                                       !.error = <<"HTTP error! status: ", response.status>>,
                                       !.hasMore = FALSE],
                   !.requests = @ \ {r}]

\* clearTimeout(handle)
ClearTimeout(timers, handle) == timers \ {handle}

\* Faulty variant of search: the pending timer is not cleared.
searchNoClear(a, query) ==
    LET timer == [query |-> query, due |-> a.now + SEARCH_DEBOUNCE]
    IN [a EXCEPT !.localSearchQuery = query,
                 !.timers = @ \cup {timer},
                 !.searchDebounceRef = timer]

\* search(query): a timer is the query it will fetch and the time it is due
search(a, query) ==
    LET timer == [query |-> query, due |-> a.now + SEARCH_DEBOUNCE]
    IN [a EXCEPT !.localSearchQuery = query,
                 !.timers = ClearTimeout(@, a.searchDebounceRef) \cup {timer},
                 !.searchDebounceRef = timer]

\* The callback search hands to setTimeout
SearchTimeout(a, timer) ==
    IF a.config # Null /\ timer.query # ""
    THEN fetchData(a, 1, FALSE, [query |-> timer.query])
    ELSE IF a.config # Null /\ timer.query = ""
    THEN fetchData(a, 1, FALSE, Null)
    ELSE a

\* The cleanup of the effect
Cleanup(a) ==
    [a EXCEPT !.requests = Abort(@, a.controller),
              !.timers = ClearTimeout(@, a.searchDebounceRef),
              !.phase = "unmounted"]

\* What of the hook a response must not touch once its request is superseded
AppliedPart(a) == <<a.state.options, a.state.hasMore, a.state.currentPage, a.state.error, a.cache>>

ApiStep(after) ==
    /\ api' = after
    /\ UNCHANGED <<histVars, editVars, fmtVars, valVars, storeVars>>

\* useEffect on mount: fetchData() with an apiConfig, the initial state without
MountEffect ==
    /\ api.phase = "rendered"
    /\ ApiStep(IF api.config # Null
               THEN [fetchData(api, 1, FALSE, Null) EXCEPT !.phase = "mounted"]
               ELSE [api EXCEPT !.state = InitialApiState, !.phase = "mounted"])
    /\ UNCHANGED apiLog

\* refetch()
Refetch ==
    /\ api.phase = "mounted" /\ api.calls < MaxCalls
    /\ ApiStep(fetchData(api, 1, FALSE, Null))
    /\ UNCHANGED apiLog

\* loadMore()
LoadMore ==
    /\ api.phase = "mounted" /\ api.calls < MaxCalls
    /\ ApiStep(IF api.state.hasMore /\ ~api.state.loading
               THEN fetchData(api, api.state.currentPage + 1, TRUE, Null)
               ELSE api)
    /\ UNCHANGED apiLog

\* clearCache()
ClearCache ==
    /\ api.phase = "mounted" /\ api.cache # Null
    /\ ApiStep([api EXCEPT !.cache = Null])
    /\ UNCHANGED apiLog

\* search(query)
Search ==
    /\ api.phase = "mounted"
    /\ \E query \in Queries :
          /\ ApiStep(search(api, query))
          /\ apiLog' = [apiLog EXCEPT !.lastSearch = [query |-> query, at |-> api.now],
                                      !.timerFetches = <<>>]

\* A timer of the debounce comes due and its callback runs
TimerFires ==
    /\ api.phase = "mounted" /\ api.calls < MaxCalls
    /\ \E timer \in api.timers :
          /\ api.now >= timer.due
          /\ ApiStep(SearchTimeout([api EXCEPT !.timers = @ \ {timer}], timer))
          /\ apiLog' = [apiLog EXCEPT !.timerFetches =
                           IF api.config # Null
                           THEN Append(@, [search |-> timer.query, at |-> api.now,
                                           requests |-> api'.requests \ api.requests])
                           ELSE @]

\* The fetch of a request in flight settles with a response and fetchData resumes
Respond ==
    \E r \in api.requests, response \in Responses :
        /\ ApiStep(fetchDataResume(api, r, response))
        /\ apiLog' = [apiLog EXCEPT !.staleApplied =
                         @ \/ (r.id < api.calls /\ AppliedPart(api') # AppliedPart(api))]

\* The component is torn down
Unmount ==
    /\ api.phase = "mounted"
    /\ ApiStep(Cleanup(api))
    /\ UNCHANGED apiLog

\* Time passes, by one tick or up to the instant the next timer is due if that
\* comes sooner; a timer that is due fires first
Tick ==
    /\ api.phase = "mounted"
    /\ api.now + TickMs <= MaxTime
    /\ \A timer \in api.timers : api.now < timer.due
    /\ LET instants == {api.now + TickMs} \cup {timer.due : timer \in api.timers}
           next == CHOOSE t \in instants : \A u \in instants : t <= u
       IN  ApiStep([api EXCEPT !.now = next])
    /\ UNCHANGED apiLog

InitApi ==
    /\ \E config \in {ApiConfig, Null} :
          api = [config |-> config, phase |-> "rendered", state |-> InitialApiState,
                 localSearchQuery |-> "", controller |-> 0, searchDebounceRef |-> Null,
                 cache |-> Null, requests |-> {}, timers |-> {}, calls |-> 0, now |-> 0]
    /\ apiLog = [lastSearch |-> Null, timerFetches |-> <<>>, staleApplied |-> FALSE]
    /\ HistIdle
    /\ EditIdle
    /\ FmtIdle
    /\ ValIdle
    /\ StoreIdle

NextApi ==
    \/ MountEffect \/ Refetch \/ LoadMore \/ ClearCache
    \/ Search \/ TimerFires \/ Respond \/ Unmount \/ Tick

SpecApi == InitApi /\ [][NextApi]_vars

-----------------------------------------------------------------------------
(* Superseded requests and the search debounce *)

\* C24: no response of a request superseded by a newer fetchData call of the
\* hook (answered from the cache or not) ever changed options, hasMore,
\* currentPage, error or the cache, and after teardown no request is left
\* that could.
C24_SupersededNeverApplied ==
    api # Null =>
        /\ ~apiLog.staleApplied
        /\ api.phase = "unmounted" => api.requests = {}

\* The part of C24 that holds: the only request in flight is the one of the
\* current controller, which every later request that reaches the network and
\* the teardown abort; so only a later call answered from the cache leaves a
\* superseded request in flight.
C24_OnlyCurrentRequestInFlight ==
    api # Null =>
        /\ \A r \in api.requests : r.id = api.controller
        /\ api.phase = "unmounted" => api.requests = {}

\* The fetchData call a timer made started exactly one request, for page 1
\* and carrying the query
IssuedRequestFor(fetch, query) ==
    /\ Cardinality(fetch.requests) = 1
    /\ \A r \in fetch.requests : r.search = [query |-> query] /\ r.page = 1 /\ ~r.append

\* The debounce delay has passed since the last call of search
DebounceOver == apiLog.lastSearch # Null /\ api.now > apiLog.lastSearch.at + SEARCH_DEBOUNCE

\* C25 as stated, for every query and every hook: at most one timer is
\* pending; no timer fetch comes before 300 ms have passed since the last
\* call of search; and once they have passed exactly one request has been
\* issued, carrying the last query.
C25_SearchDebouncedAnyQuery ==
    api # Null =>
        /\ Cardinality(api.timers) <= 1
        /\ \A k \in 1..Len(apiLog.timerFetches) :
              apiLog.timerFetches[k].at >= apiLog.lastSearch.at + SEARCH_DEBOUNCE
        /\ (api.phase = "mounted" /\ DebounceOver) =>
              /\ Len(apiLog.timerFetches) = 1
              /\ IssuedRequestFor(apiLog.timerFetches[1], apiLog.lastSearch.query)

\* C25: at most one debounce timer is pending; no timer calls fetchData
\* before 300 ms have passed since the last call of search; and once they
\* have passed, a mounted hook with an apiConfig has made exactly one
\* fetchData call for the last query: if that query is not empty the call
\* issued one request carrying it, and if it is empty the call carried no
\* search (so that a fresh cache answers it without a request).
C25_SearchDebounced ==
    api # Null =>
        /\ Cardinality(api.timers) <= 1
        /\ Len(apiLog.timerFetches) <= 1
        /\ \A k \in 1..Len(apiLog.timerFetches) :
              LET fetch == apiLog.timerFetches[k]
              IN /\ fetch.at >= apiLog.lastSearch.at + SEARCH_DEBOUNCE
                 /\ fetch.search = apiLog.lastSearch.query
                 /\ IF fetch.search # ""
                    THEN IssuedRequestFor(fetch, fetch.search)
                    ELSE \A r \in fetch.requests : r.search = Null
        /\ (api.phase = "mounted" /\ api.config # Null /\ DebounceOver) =>
              Len(apiLog.timerFetches) = 1
        /\ api.config = Null => apiLog.timerFetches = <<>>

\* search was last called with "ap" one tick after mount, and the one fetch
\* of the burst went out 300 ms later carrying "ap"
C25_Witness ==
    /\ api # Null
    /\ apiLog.lastSearch = [query |-> "ap", at |-> TickMs]
    /\ Len(apiLog.timerFetches) = 1
    /\ apiLog.timerFetches[1].at = TickMs + SEARCH_DEBOUNCE
    /\ IssuedRequestFor(apiLog.timerFetches[1], "ap")
    /\ api.timers = {}

\* ======================================================================
\* Saved rules and folders in localStorage (src/utils/savedRulesUtils.ts)
\* ======================================================================

\* localStorage holds two JSON texts, one under the rules key and one under the
\* folders key. A stored list is modelled by what JSON.parse yields for it: a
\* sequence of records. A key that is undefined in an object is absent from its text.
Undefined == "undefined"

\* record.key in JavaScript: undefined when the object has no such key
Get(record, key) == IF key \in DOMAIN record THEN record[key] ELSE Undefined

\* JSON.stringify followed by JSON.parse of one object: keys whose value is
\* undefined are dropped (the rule of a saved rule is an object, never undefined);
\* dates become ISO strings and come back as the same instants
JsonRoundTrip(record) ==
    LET kept == {k \in DOMAIN record : k = "rule" \/ record[k] # Undefined}
    IN  [k \in kept |-> record[k]]

\* localStorage.setItem(key, JSON.stringify(list)) as later read by getItem + JSON.parse
SetItem(store, key, list) ==
    [store EXCEPT ![key] = [i \in 1..Len(list) |-> JsonRoundTrip(list[i])]]

getSavedFolders(store) == store.folders

getSavedRules(store) == store.rules

\* updateSavedRule(id, updates): the storage after the call; now is new Date()
updateSavedRule(store, id, updates, now) ==
    LET existingRules == getSavedRules(store)
        ruleIndex == FindIndex(existingRules, id)
    IN  IF ruleIndex = 0
        THEN store
        ELSE LET updatedRule ==
                    Spread(Spread(existingRules[ruleIndex], updates), [updatedAt |-> now])
             IN  SetItem(store, "rules", [existingRules EXCEPT ![ruleIndex] = updatedRule])

\* updateFolder(id, updates): the storage after the call
updateFolder(store, id, updates, now) ==
    LET existingFolders == getSavedFolders(store)
        folderIndex == FindIndex(existingFolders, id)
    IN  IF folderIndex = 0
        THEN store
        ELSE LET updatedFolder ==
                    Spread(Spread(existingFolders[folderIndex], updates), [updatedAt |-> now])
             IN  SetItem(store, "folders",
                         [existingFolders EXCEPT ![folderIndex] = updatedFolder])

\* deleteSavedRule(id): the storage after the call and the value returned
deleteSavedRule(store, id) ==
    LET existingRules == getSavedRules(store)
        Other(rule) == rule.id # id
        filteredRules == SelectSeq(existingRules, Other)
    IN  IF Len(filteredRules) = Len(existingRules)
        THEN [storage |-> store, returned |-> FALSE]
        ELSE [storage |-> SetItem(store, "rules", filteredRules), returned |-> TRUE]

\* childFolders.forEach(child => updateFolder(child.id, {parentId})), from the k-th child
RECURSIVE MoveFoldersFrom(_, _, _, _, _)
MoveFoldersFrom(store, childFolders, k, parentId, now) ==
    IF k > Len(childFolders)
    THEN store
    ELSE MoveFoldersFrom(updateFolder(store, childFolders[k].id, [parentId |-> parentId], now),
                         childFolders, k + 1, parentId, now)

\* rulesInFolder.forEach(rule => updateSavedRule(rule.id, {folderId})), from the k-th rule
RECURSIVE MoveRulesFrom(_, _, _, _, _)
MoveRulesFrom(store, rulesInFolder, k, folderId, now) ==
    IF k > Len(rulesInFolder)
    THEN store
    ELSE MoveRulesFrom(updateSavedRule(store, rulesInFolder[k].id, [folderId |-> folderId], now),
                       rulesInFolder, k + 1, folderId, now)

\* rulesInFolder.forEach(rule => deleteSavedRule(rule.id)), from the k-th rule
RECURSIVE DeleteRulesFrom(_, _, _)
DeleteRulesFrom(store, rulesInFolder, k) ==
    IF k > Len(rulesInFolder)
    THEN store
    ELSE DeleteRulesFrom(deleteSavedRule(store, rulesInFolder[k].id).storage,
                         rulesInFolder, k + 1)

\* deleteFolder(id, moveContentsToParent): the storage after the call and the value
\* returned. existingFolders is read once, before the contents are handled, and
\* the last write stores that list without the folder.
RECURSIVE deleteFolder(_, _, _, _)
RECURSIVE DeleteFoldersFrom(_, _, _, _)
DeleteFoldersFrom(store, childFolders, k, now) ==
    IF k > Len(childFolders)
    THEN store
    ELSE DeleteFoldersFrom(deleteFolder(store, childFolders[k].id, FALSE, now).storage,
                           childFolders, k + 1, now)

deleteFolder(store, id, moveContentsToParent, now) ==
    LET existingFolders == getSavedFolders(store)
        folderIndex == FindIndex(existingFolders, id)
    IN  IF folderIndex = 0
        THEN [storage |-> store, returned |-> FALSE]
        ELSE LET folderToDelete == existingFolders[folderIndex]
                 IsChild(folder) == Get(folder, "parentId") = id
                 InFolder(rule) == Get(rule, "folderId") = id
                 childFolders == SelectSeq(existingFolders, IsChild)
                 foldersDone ==
                    IF moveContentsToParent
                    THEN MoveFoldersFrom(store, childFolders, 1,
                                         Get(folderToDelete, "parentId"), now)
                    ELSE DeleteFoldersFrom(store, childFolders, 1, now)
                 rulesInFolder == SelectSeq(getSavedRules(foldersDone), InFolder)
                 contentsDone ==
                    IF moveContentsToParent
                    THEN MoveRulesFrom(foldersDone, rulesInFolder, 1,
                                       Get(folderToDelete, "parentId"), now)
                    ELSE DeleteRulesFrom(foldersDone, rulesInFolder, 1)
                 Other(folder) == folder.id # id
                 filteredFolders == SelectSeq(existingFolders, Other)
             IN  [storage |-> SetItem(contentsDone, "folders", filteredFolders),
                  returned |-> TRUE]

\* ----------------------------------------------------------------------
\* The storage as a state machine: a library of three folders and two rules,
\* in every arrangement where a folder's parent was created before it
\* ----------------------------------------------------------------------

MaxStoreCalls == 2

SavedFolderIds == <<"f1", "f2", "f3">>

SavedRuleIds == <<"r1", "r2">>

\* an id no folder and no rule has
UnknownId == "missing"

\* the instant the library was created and the instants new Date() can give later
Created == "t0"

Instants == {"t1", "t2"}

\* the parents a folder can have been created under: none, or an earlier folder
ParentChoices(k) == {Undefined} \cup {SavedFolderIds[j] : j \in 1..(k - 1)}

FolderChoices == {Undefined} \cup {SavedFolderIds[k] : k \in 1..Len(SavedFolderIds)}

\* createFolder's record as stored
StoredFolder(id, parentId) ==
    JsonRoundTrip([id |-> id, name |-> id, parentId |-> parentId,
                   createdAt |-> Created, updatedAt |-> Created])

\* saveRule's record as stored
StoredRule(id, folderId) ==
    JsonRoundTrip([id |-> id, name |-> id, rule |-> SampleRule, folderId |-> folderId,
                   createdAt |-> Created, updatedAt |-> Created])

Libraries ==
    {[folders |-> [k \in 1..Len(SavedFolderIds) |-> StoredFolder(SavedFolderIds[k], parents[k])],
      rules |-> [k \in 1..Len(SavedRuleIds) |-> StoredRule(SavedRuleIds[k], places[k])]] :
        parents \in {p \in [1..Len(SavedFolderIds) -> FolderChoices] :
                        \A k \in 1..Len(SavedFolderIds) : p[k] \in ParentChoices(k)},
        places \in [1..Len(SavedRuleIds) -> FolderChoices]}

FolderArguments == {SavedFolderIds[k] : k \in 1..Len(SavedFolderIds)} \cup {UnknownId}

RuleArguments == {SavedRuleIds[k] : k \in 1..Len(SavedRuleIds)} \cup {UnknownId}

\* one call on the storage: what it leaves in localStorage and what is noted of it
StoreCall(name, id, after, returned) ==
    /\ storage # Null
    /\ storageResult.calls < MaxStoreCalls
    /\ storage' = after
    /\ storageResult' = [calls |-> storageResult.calls + 1, call |-> name, id |-> id,
                         before |-> storage, returned |-> returned]
    /\ UNCHANGED <<histVars, editVars, fmtVars, valVars, apiVars>>

DeleteFolderMovingContents ==
    \E id \in FolderArguments, now \in Instants :
        LET out == deleteFolder(storage, id, TRUE, now)
        IN  StoreCall("deleteFolder(id, true)", id, out.storage, out.returned)

DeleteFolderRecursively ==
    \E id \in FolderArguments, now \in Instants :
        LET out == deleteFolder(storage, id, FALSE, now)
        IN  StoreCall("deleteFolder(id, false)", id, out.storage, out.returned)

DeleteSavedRule ==
    \E id \in RuleArguments :
        LET out == deleteSavedRule(storage, id)
        IN  StoreCall("deleteSavedRule", id, out.storage, out.returned)

\* moveRuleToFolder(ruleId, targetFolderId): true when updateSavedRule found the rule
MoveRuleToFolder ==
    \E ruleId \in RuleArguments, targetFolderId \in FolderChoices, now \in Instants :
        LET after == updateSavedRule(storage, ruleId, [folderId |-> targetFolderId], now)
        IN  StoreCall("moveRuleToFolder", ruleId, after,
                      FindIndex(getSavedRules(storage), ruleId) # 0)

InitStore ==
    /\ storage \in Libraries
    /\ storageResult = [calls |-> 0, call |-> "none", id |-> UnknownId,
                        before |-> storage, returned |-> FALSE]
    /\ HistIdle
    /\ EditIdle
    /\ FmtIdle
    /\ ValIdle
    /\ ApiIdle

NextStore ==
    \/ DeleteFolderMovingContents
    \/ DeleteFolderRecursively
    \/ DeleteSavedRule
    \/ MoveRuleToFolder

SpecStore == InitStore /\ [][NextStore]_vars

\* ----------------------------------------------------------------------
\* Properties of deleteFolder
\* ----------------------------------------------------------------------

IdsOf(list) == {list[i].id : i \in 1..Len(list)}

\* the stored record with this id
Stored(list, id) == list[FindIndex(list, id)]

\* the ids of the records of a list whose key holds this value
IdsWhere(list, key, value) ==
    {list[i].id : i \in {j \in 1..Len(list) : Get(list[j], key) = value}}

\* folder id lies below folder ancestor, at most fuel levels deep
RECURSIVE IsInside(_, _, _, _)
IsInside(store, id, ancestor, fuel) ==
    LET parentId == IF id \in IdsOf(store.folders)
                    THEN Get(Stored(store.folders, id), "parentId")
                    ELSE Undefined
    IN  /\ fuel > 0
        /\ parentId # Undefined
        /\ \/ parentId = ancestor
           \/ IsInside(store, parentId, ancestor, fuel - 1)

Descendants(store, id) ==
    {f \in IdsOf(store.folders) : IsInside(store, f, id, Len(store.folders))}

\* C26: deleteFolder(id, true) on an existing folder returns true; afterwards the
\* folder is gone, every folder that was its direct child has the deleted folder's
\* parentId, every rule that was in it has the deleted folder's parentId as its
\* folderId, and no other folder or rule is removed; on an unknown id it returns
\* false and changes nothing
C26_DeleteFolderMovesContents ==
    storage # Null =>
        \A id \in FolderArguments, now \in Instants :
            LET out == deleteFolder(storage, id, TRUE, now)
                after == out.storage
            IN  IF id \notin IdsOf(storage.folders)
                THEN out.returned = FALSE /\ after = storage
                ELSE LET parentId == Get(Stored(storage.folders, id), "parentId")
                     IN  /\ out.returned = TRUE
                         /\ IdsOf(after.folders) = IdsOf(storage.folders) \ {id}
                         /\ IdsOf(after.rules) = IdsOf(storage.rules)
                         /\ \A child \in IdsWhere(storage.folders, "parentId", id) :
                                Get(Stored(after.folders, child), "parentId") = parentId
                         /\ \A rule \in IdsWhere(storage.rules, "folderId", id) :
                                Get(Stored(after.rules, rule), "folderId") = parentId

\* What deleteFolder(id, true) does: the folder list written last is the one read
\* first without the folder, so every other folder is stored exactly as it was,
\* the direct children still naming the deleted folder as their parent; the rules
\* are moved, and an unknown id changes nothing
C26_MoveKeepsFolderRecords ==
    storage # Null =>
        \A id \in FolderArguments, now \in Instants :
            LET out == deleteFolder(storage, id, TRUE, now)
                after == out.storage
                Other(folder) == folder.id # id
            IN  IF id \notin IdsOf(storage.folders)
                THEN out.returned = FALSE /\ after = storage
                ELSE LET parentId == Get(Stored(storage.folders, id), "parentId")
                     IN  /\ out.returned = TRUE
                         /\ after.folders = SelectSeq(storage.folders, Other)
                         /\ IdsOf(after.rules) = IdsOf(storage.rules)
                         /\ \A child \in IdsWhere(storage.folders, "parentId", id) :
                                Get(Stored(after.folders, child), "parentId") = id
                         /\ \A rule \in IdsOf(storage.rules) :
                                Get(Stored(after.rules, rule), "folderId") =
                                    IF rule \in IdsWhere(storage.rules, "folderId", id)
                                    THEN parentId
                                    ELSE Get(Stored(storage.rules, rule), "folderId")

\* a folder with a child folder was deleted with its contents moved, and the child
\* is still stored under the deleted folder
C26_ChildLeftBehind ==
    /\ storage # Null
    /\ storageResult.call = "deleteFolder(id, true)"
    /\ storageResult.returned
    /\ IdsWhere(storageResult.before.folders, "parentId", storageResult.id) # {}
    /\ IdsWhere(storage.folders, "parentId", storageResult.id) # {}

\* C27: after deleteFolder(id, false) on an existing folder the storage holds
\* neither that folder, nor any folder that was its descendant at any depth, nor
\* any rule whose folderId was that folder or one of its descendants
C27_DeleteFolderRecursive ==
    storage # Null =>
        \A id \in IdsOf(storage.folders), now \in Instants :
            LET after == deleteFolder(storage, id, FALSE, now).storage
                doomed == {id} \cup Descendants(storage, id)
            IN  /\ IdsOf(after.folders) \cap doomed = {}
                /\ \A rule \in IdsOf(storage.rules) :
                        Get(Stored(storage.rules, rule), "folderId") \in doomed =>
                            rule \notin IdsOf(after.rules)

\* What deleteFolder(id, false) does: the rules of the folder and of all its
\* descendants are deleted and no other rule is, but of the folders only the one
\* named is removed: the list written last still holds every descendant
C27_RecursiveKeepsDescendantFolders ==
    storage # Null =>
        \A id \in IdsOf(storage.folders), now \in Instants :
            LET out == deleteFolder(storage, id, FALSE, now)
                after == out.storage
                doomed == {id} \cup Descendants(storage, id)
                Other(folder) == folder.id # id
                Spared(rule) == Get(rule, "folderId") \notin doomed
            IN  /\ out.returned = TRUE
                /\ after.folders = SelectSeq(storage.folders, Other)
                /\ after.rules = SelectSeq(storage.rules, Spared)

\* a folder with a child folder was deleted recursively, and the child is still stored
C27_DescendantLeftBehind ==
    /\ storage # Null
    /\ storageResult.call = "deleteFolder(id, false)"
    /\ storageResult.returned
    /\ Descendants(storageResult.before, storageResult.id) # {}
    /\ Descendants(storageResult.before, storageResult.id) \subseteq IdsOf(storage.folders)

====
